---- MODULE Spec2Model ----
(***************************************************************************)
(* A model of jgalgo-core/gensources.py: the template expansion pipeline   *)
(* (directive parser, block resolver, constant substitution, macro         *)
(* expansion) and the incremental driver with its hashes.json record.      *)
(*                                                                         *)
(* Text is a sequence of lexemes.  A lexeme is one character ("(", ",",    *)
(* " ", "\n", ...) or an indivisible run of characters that no operation   *)
(* of the program can split in the modelled inputs (a directive prefix     *)
(* such as "#if ", a fragment of an identifier such as "KEY_").            *)
(***************************************************************************)
EXTENDS Integers, Sequences, FiniteSets, TLC

(***************************************************************************)
(* Python string and list primitives                                       *)
(***************************************************************************)

\* text[a:b] with 0-based, end-exclusive Python indices, 0 <= a
Slice(s, a, b) ==
    IF b <= a THEN <<>> ELSE SubSeq(s, a + 1, IF b > Len(s) THEN Len(s) ELSE b)

\* s.startswith(p)
StartsWith(s, p) ==
    /\ Len(s) >= Len(p)
    /\ SubSeq(s, 1, Len(p)) = p

\* s occurs in text at 0-based index i
OccursAt(text, s, i) ==
    /\ i >= 0
    /\ i + Len(s) <= Len(text)
    /\ SubSeq(text, i + 1, i + Len(s)) = s

\* text.find(s, begin): lowest 0-based index >= begin, or -1
Find(text, s, begin) ==
    LET hits == {i \in begin..(Len(text) - Len(s)) : OccursAt(text, s, i)}
    IN  IF hits = {} THEN -1 ELSE CHOOSE i \in hits : \A j \in hits : i <= j

\* characters at which str.splitlines() ends a line; open() in text mode has
\* already turned "\r\n" and "\r" into "\n"
LineBoundaries == {"\n", "\f"}

RECURSIVE SplitAcc(_, _, _, _)
SplitAcc(text, i, cur, acc) ==
    IF i > Len(text)
    THEN IF cur = <<>> THEN acc ELSE Append(acc, cur)
    ELSE IF text[i] \in LineBoundaries
         THEN SplitAcc(text, i + 1, <<>>, Append(acc, cur))
         ELSE SplitAcc(text, i + 1, Append(cur, text[i]), acc)

\* text.splitlines()
Splitlines(text) == SplitAcc(text, 1, <<>>, <<>>)

RECURSIVE Join(_, _)
\* sep.join(lines)
Join(lines, sep) ==
    IF lines = <<>> THEN <<>>
    ELSE IF Len(lines) = 1 THEN lines[1]
    ELSE lines[1] \o sep \o Join(Tail(lines), sep)

RECURSIVE Replace(_, _, _)
\* text.replace(old, new) for a non-empty old: leftmost, non-overlapping
Replace(text, old, new) ==
    IF Len(text) < Len(old) THEN text
    ELSE IF StartsWith(text, old)
         THEN new \o Replace(SubSeq(text, Len(old) + 1, Len(text)), old, new)
         ELSE <<text[1]>> \o Replace(Tail(text), old, new)

\* str.isspace() on one character
IsSpace(c) == c \in {" ", "\n", "\f", "\t"}

(***************************************************************************)
(* generate_sourcefile: the directive parser                               *)
(***************************************************************************)

\* a literal line of a container ("isinstance(block, str)")
LineBlock(line) ==
    [type |-> "line", condition |-> line, blocks |-> <<>>]

NewBlock(type, condition) ==
    [type |-> type, condition |-> condition, blocks |-> <<>>]

root_block == NewBlock("container", <<>>)

RECURSIVE BlockAt(_, _)
\* the block a stack entry refers to: stack entries are paths of 1-based
\* child positions from the root, standing for Python's object references
BlockAt(node, path) ==
    IF path = <<>> THEN node ELSE BlockAt(node.blocks[Head(path)], Tail(path))

RECURSIVE AppendAt(_, _, _)
\* stack[-1]["blocks"].append(child)
AppendAt(node, path, child) ==
    IF path = <<>>
    THEN [node EXCEPT !.blocks = Append(@, child)]
    ELSE [node EXCEPT !.blocks[Head(path)] = AppendAt(@, Tail(path), child)]

\* a pop that removes nothing
PopNothing(stack) == stack

\* a pop that never removes the root container from the stack
PopKeepRoot(stack) ==
    IF Len(stack) <= 1 THEN stack ELSE SubSeq(stack, 1, Len(stack) - 1)

\* stack.pop()
Pop(stack) == SubSeq(stack, 1, Len(stack) - 1)

\* append a new arm block under stack[-1] and push it
OpenBlock(st, stack, type, condition) ==
    IF stack = <<>>
    THEN [st EXCEPT !.status = "IndexError"]
    ELSE LET top == stack[Len(stack)]
             n == Len(BlockAt(st.root, top).blocks) + 1
         IN  [st EXCEPT !.root = AppendAt(st.root, top, NewBlock(type, condition)),
                        !.stack = Append(stack, Append(top, n))]

\* one iteration of "for line in text.splitlines()"
ParseLine(st, line) ==
    IF StartsWith(line, <<"#if ">>)
    THEN OpenBlock(st, st.stack, "if", Tail(line))
    ELSE IF StartsWith(line, <<"#elif ">>)
    THEN OpenBlock(st, Pop(st.stack), "elif", Tail(line))
    ELSE IF StartsWith(line, <<"#else">>)
    THEN OpenBlock(st, Pop(st.stack), "else", <<>>)
    ELSE IF StartsWith(line, <<"#endif">>)
    THEN LET stack == Pop(st.stack)
         IN  IF stack = <<>>
             THEN [st EXCEPT !.status = "IndexError"]
             ELSE [st EXCEPT !.root = AppendAt(st.root, stack[Len(stack)],
                                               NewBlock("endif", <<>>)),
                             !.stack = stack]
    ELSE [st EXCEPT !.root = AppendAt(st.root, st.stack[Len(st.stack)],
                                      LineBlock(line))]

RECURSIVE ParseLines(_, _, _)
ParseLines(lines, i, st) ==
    IF i > Len(lines) \/ st.status # "ok" THEN st
    ELSE ParseLines(lines, i + 1, ParseLine(st, lines[i]))

\* the block tree built from the template text
ParseBlocks(text) ==
    ParseLines(Splitlines(text), 1,
               [status |-> "ok", root |-> root_block, stack |-> << <<>> >>])

(***************************************************************************)
(* generate_sourcefile: eval_condition and the block resolver              *)
(***************************************************************************)

\* lexemes an identifier of a condition is made of
IdentLexemes ==
    {"KEY_", "VALUE_", "PRIMITIVE_", "FASTUTIL_", "COMPARE_", "TYPE", "_NAME",
     "_REAL", "_GENERIC", "_CLASS", "_IN_TEMPLATE_LIST", "_EMPTY", "PACKAGE",
     "CAST_TO", "SUPPRESS_WARNINGS_UNCHECKED", "COMPARATOR", "TO_BOXED",
     "BOXED_TO_PRIMITIVE", "DEFAULT", "_EQ", "_NEQ", "_LE", "_GE", "Q", "PAIR",
     "I", "WEIGHTS", "REFERENCEABLE_HEAP", "HEAP_REFERENCE", "PAIRING_HEAP",
     "GENERIC", "UNDEFINED_NAME", "x"}

\* string literals a condition may hold, with the text each denotes
StringLiterals ==
    [x \in {"\"Obj\"", "\"Int\"", "\"\""} |->
        IF x = "\"Obj\"" THEN <<"Obj">>
        ELSE IF x = "\"Int\"" THEN <<"Int">> ELSE <<>>]

IsIdentifier(e) == e # <<>> /\ \A k \in 1..Len(e) : e[k] \in IdentLexemes

IsLiteral(e) == Len(e) = 1 /\ e[1] \in DOMAIN StringLiterals

IsOperand(e) == e \in {<<"True">>, <<"False">>} \/ IsLiteral(e) \/ IsIdentifier(e)

\* the value of an operand, a truth value (kind "bool") or a string (kind
\* "str"); "NameError" when the name is in neither the constants nor the
\* builtins
OperandValue(e, constants) ==
    IF e = <<"True">> THEN [err |-> "ok", kind |-> "bool", b |-> TRUE, s |-> <<>>]
    ELSE IF e = <<"False">>
    THEN [err |-> "ok", kind |-> "bool", b |-> FALSE, s |-> <<>>]
    ELSE IF IsLiteral(e)
    THEN [err |-> "ok", kind |-> "str", b |-> FALSE, s |-> StringLiterals[e[1]]]
    ELSE IF e \in DOMAIN constants
    THEN [err |-> "ok", kind |-> "str", b |-> FALSE, s |-> constants[e]]
    ELSE [err |-> "NameError", kind |-> "str", b |-> FALSE, s |-> <<>>]

\* Python truthiness of a truth value or a string
Truthy(v) == IF v.kind = "bool" THEN v.b ELSE v.s # <<>>

\* one comparison or operand of a condition:  operand | operand == operand |
\* operand != operand ; the answer is "true", "false" or the exception
eval_comparison(toks, constants) ==
    LET ops == {k \in 1..Len(toks) : toks[k] \in {"==", "!="}}
    IN  IF ops = {}
        THEN IF ~IsOperand(toks) THEN "SyntaxError"
             ELSE LET v == OperandValue(toks, constants)
                  IN  IF v.err # "ok" THEN v.err
                      ELSE IF Truthy(v) THEN "true" ELSE "false"
        ELSE IF Cardinality(ops) # 1 THEN "SyntaxError"
        ELSE LET k == CHOOSE x \in ops : TRUE
                 lhs == SubSeq(toks, 1, k - 1)
                 rhs == SubSeq(toks, k + 1, Len(toks))
             IN  IF ~IsOperand(lhs) \/ ~IsOperand(rhs) THEN "SyntaxError"
                 ELSE LET l == OperandValue(lhs, constants)
                          r == OperandValue(rhs, constants)
                      IN  IF l.err # "ok" THEN l.err
                          ELSE IF r.err # "ok" THEN r.err
                          ELSE IF (l = r) <=> (toks[k] = "==")
                               THEN "true" ELSE "false"

\* toks is an assignment expression  ( name := operand )  with a string
\* operand
IsAssignment(toks) ==
    /\ Len(toks) >= 5
    /\ toks[1] = "(" /\ toks[Len(toks)] = ")"
    /\ \E k \in 3..(Len(toks) - 2) :
          /\ toks[k] = ":="
          /\ IsIdentifier(SubSeq(toks, 2, k - 1))
          /\ LET rhs == SubSeq(toks, k + 1, Len(toks) - 1)
             IN  IsLiteral(rhs) \/ IsIdentifier(rhs)

\* an atom of a condition evaluated in the locals dict constants: the answer
\* and the dict afterwards.  An assignment expression stores into the dict
\* (STORE_NAME on the locals mapping given to eval).
eval_atom(toks, constants) ==
    IF IsAssignment(toks)
    THEN LET k == CHOOSE x \in 3..(Len(toks) - 2) : toks[x] = ":="
             v == OperandValue(SubSeq(toks, k + 1, Len(toks) - 1), constants)
         IN  IF v.err # "ok" THEN [status |-> v.err, constants |-> constants]
             ELSE [status |-> IF Truthy(v) THEN "true" ELSE "false",
                   constants |->
                       [n \in DOMAIN constants \cup {SubSeq(toks, 2, k - 1)} |->
                           IF n = SubSeq(toks, 2, k - 1) THEN v.s
                           ELSE constants[n]]]
    ELSE [status |-> eval_comparison(toks, constants), constants |-> constants]

RECURSIVE SplitAt(_, _)
\* the operands of the keyword kw in toks, left to right
SplitAt(toks, kw) ==
    IF \A k \in 1..Len(toks) : toks[k] # kw THEN <<toks>>
    ELSE LET k == CHOOSE x \in 1..Len(toks) :
                      toks[x] = kw /\ \A y \in 1..(x - 1) : toks[y] # kw
         IN  <<SubSeq(toks, 1, k - 1)>>
                 \o SplitAt(SubSeq(toks, k + 1, Len(toks)), kw)

RECURSIVE eval_not(_, _)
\* "not" binds looser than a comparison
eval_not(toks, constants) ==
    IF toks # <<>> /\ Head(toks) = "not"
    THEN LET r == eval_not(Tail(toks), constants)
         IN  [r EXCEPT !.status = IF @ = "true" THEN "false"
                                  ELSE IF @ = "false" THEN "true" ELSE @]
    ELSE eval_atom(toks, constants)

RECURSIVE eval_operands(_, _, _, _)
\* the operands of "or" (stop = "true") or of "and" (stop = "false") from
\* the i-th on: Python evaluates them left to right and stops at the first
\* whose truth value is stop, or that raises
eval_operands(operands, i, stop, constants) ==
    LET r == IF stop = "true"
             THEN eval_operands(SplitAt(operands[i], "and"), 1, "false", constants)
             ELSE eval_not(operands[i], constants)
    IN  IF r.status \notin {"true", "false"} \/ r.status = stop
           \/ i = Len(operands)
        THEN r
        ELSE eval_operands(operands, i + 1, stop, r.constants)

\* compile(): every atom of the expression has to parse, whether or not
\* the evaluation would reach it
condition_compiles(toks, constants) ==
    \A d \in 1..Len(SplitAt(toks, "or")) :
        LET conj == SplitAt(SplitAt(toks, "or")[d], "and")
        IN  \A c \in 1..Len(conj) :
                eval_not(conj[c], constants).status # "SyntaxError"

\* eval(condition, {}, constants) on the fragment: atoms joined by "not",
\* "and", "or"; the answer ("true", "false" or the exception) and the dict
\* constants afterwards
eval_in(condition, constants) ==
    LET toks == SelectSeq(condition, LAMBDA c : ~IsSpace(c))
    IN  IF ~condition_compiles(toks, constants)
        THEN [status |-> "SyntaxError", constants |-> constants]
        ELSE eval_operands(SplitAt(toks, "or"), 1, "true", constants)

\* eval_condition as the resolver uses it: the truth value or the exception
eval_condition(condition, constants) == eval_in(condition, constants).status

RECURSIVE append_lines(_, _, _)
RECURSIVE ResolveBlocks(_, _, _, _)
RECURSIVE ResolveChain(_, _, _, _)
RECURSIVE SkipToEndif(_, _)

\* a skip written with "if" for "while": it passes over one arm at most
SkipOneArm(top_block, block_idx) ==
    IF block_idx > Len(top_block.blocks) THEN -1
    ELSE IF top_block.blocks[block_idx].type = "endif" THEN block_idx
    ELSE block_idx + 1

\* "while block['type'] != 'endif': block_idx += 1": the index of the endif
\* at or after block_idx, or -1 when the index runs off the list
SkipToEndif(top_block, block_idx) ==
    IF block_idx > Len(top_block.blocks) THEN -1
    ELSE IF top_block.blocks[block_idx].type = "endif" THEN block_idx
    ELSE SkipToEndif(top_block, block_idx + 1)

RECURSIVE ResolveChainEager(_, _, _, _)
\* a chain loop that, when an arm matches, goes on to evaluate the
\* conditions of the arms after it before it leaves the chain
ResolveChainEager(top_block, block_idx, out, constants) ==
    LET block == top_block.blocks[block_idx]
        c == IF block.type = "else" THEN "true"
             ELSE eval_condition(block.condition, constants)
        out1 == IF block.type = "else" THEN out
                ELSE [out EXCEPT !.evals = Append(@, block.condition)]
        e == SkipToEndif(top_block, block_idx + 1)
        later == [k \in 1..(e - block_idx - 1) |-> top_block.blocks[block_idx + k]]
        raised == {k \in 1..Len(later) :
                      later[k].type # "else"
                      /\ eval_condition(later[k].condition, constants)
                             \notin {"true", "false"}}
    IN  IF c \notin {"true", "false"} THEN [out1 EXCEPT !.status = c]
        ELSE IF c = "true"
        THEN LET inner == append_lines(block, out1, constants)
             IN  IF inner.status # "ok" THEN inner
                 ELSE IF e = -1 THEN [inner EXCEPT !.status = "IndexError"]
                 ELSE IF raised # {}
                 THEN [inner EXCEPT !.status = "NameError"]
                 ELSE ResolveBlocks(top_block, e + 1, inner, constants)
        ELSE IF block_idx + 1 > Len(top_block.blocks)
             THEN [out1 EXCEPT !.status = "IndexError"]
             ELSE LET next == top_block.blocks[block_idx + 1]
                  IN  IF next.type = "endif"
                      THEN ResolveBlocks(top_block, block_idx + 2, out1, constants)
                      ELSE ResolveChainEager(top_block, block_idx + 1, out1,
                                             constants)

\* the "while True" loop over the arms of one chain; block_idx is 1-based.
\* out = [status, text, evals]: evals lists the conditions evaluated so far
ResolveChain(top_block, block_idx, out, constants) ==
    LET block == top_block.blocks[block_idx]
        c == IF block.type = "else" THEN "true"
             ELSE eval_condition(block.condition, constants)
        out1 == IF block.type = "else" THEN out
                ELSE [out EXCEPT !.evals = Append(@, block.condition)]
    IN  IF c \notin {"true", "false"} THEN [out1 EXCEPT !.status = c]
        ELSE IF c = "true"
        THEN LET inner == append_lines(block, out1, constants)
             IN  IF inner.status # "ok" THEN inner
                 ELSE LET e == SkipToEndif(top_block, block_idx + 1)
                      IN  IF e = -1 THEN [inner EXCEPT !.status = "IndexError"]
                          ELSE ResolveBlocks(top_block, e + 1, inner, constants)
        ELSE IF block_idx + 1 > Len(top_block.blocks)
             THEN [out1 EXCEPT !.status = "IndexError"]
             ELSE LET next == top_block.blocks[block_idx + 1]
                  IN  IF next.type = "line"
                      THEN [out1 EXCEPT !.status = "TypeError"]
                      ELSE IF next.type = "endif"
                      THEN ResolveBlocks(top_block, block_idx + 2, out1, constants)
                      ELSE IF next.type \notin {"if", "elif", "else"}
                      THEN [out1 EXCEPT !.status = "AssertionError"]
                      ELSE ResolveChain(top_block, block_idx + 1, out1, constants)

\* the "while block_idx < block_num" loop
ResolveBlocks(top_block, block_idx, out, constants) ==
    IF block_idx > Len(top_block.blocks) THEN out
    ELSE LET block == top_block.blocks[block_idx]
         IN  IF block.type = "line"
             THEN ResolveBlocks(top_block, block_idx + 1,
                                [out EXCEPT !.text = Append(@, block.condition)],
                                constants)
             ELSE IF block.type # "if"
             THEN [out EXCEPT !.status = "AssertionError"]
             ELSE ResolveChain(top_block, block_idx, out, constants)

append_lines(top_block, out, constants) ==
    ResolveBlocks(top_block, 1, out, constants)

\* lines 149-190: resolve the parsed block tree, join, final newline.  text
\* is the resolved text (meaningful when status = "ok")
ResolveParsed(parsed, constants) ==
    LET res == IF parsed.status # "ok"
               THEN [status |-> parsed.status, text |-> <<>>, evals |-> <<>>]
               ELSE append_lines(parsed.root,
                                 [status |-> "ok", text |-> <<>>, evals |-> <<>>],
                                 constants)
        joined == Join(res.text, <<"\n">>)
    IN  [status |-> res.status,
         evals |-> res.evals,
         text |-> IF Len(joined) = 0 \/ joined[Len(joined)] # "\n"
                  THEN joined \o <<"\n">> ELSE joined]

\* lines 110-190: read, parse, resolve, join, final newline
ResolveText(input, constants) == ResolveParsed(ParseBlocks(input), constants)

(***************************************************************************)
(* find_func_args and generate_sourcefile.apply_function                   *)
(***************************************************************************)

RECURSIVE SkipSpaces(_, _)
\* "while text[begin].isspace(): begin += 1"; begin is 0-based; -1 stands for
\* the IndexError of reading past the end of text
SkipSpaces(text, begin) ==
    IF begin >= Len(text) THEN -1
    ELSE IF IsSpace(text[begin + 1]) THEN SkipSpaces(text, begin + 1)
    ELSE begin

RECURSIVE ScanArgs(_, _, _, _, _)
\* the "while True" loop of find_func_args
ScanArgs(text, begin0, open_parenthesis, words, word) ==
    LET begin == SkipSpaces(text, begin0)
    IN  IF begin = -1
        THEN [status |-> "IndexError", words |-> words, end |-> -1]
        ELSE LET c == text[begin + 1]
             IN  IF c = "("
                 THEN ScanArgs(text, begin + 1, open_parenthesis + 1, words,
                               Append(word, c))
                 ELSE IF c = ")"
                 THEN IF open_parenthesis - 1 = 0
                      THEN [status |-> "ok", words |-> Append(words, word),
                            end |-> begin + 1]
                      ELSE ScanArgs(text, begin + 1, open_parenthesis - 1, words,
                                    Append(word, c))
                 ELSE IF c = "," /\ open_parenthesis = 1
                 THEN ScanArgs(text, begin + 1, open_parenthesis,
                               Append(words, word), <<>>)
                 ELSE ScanArgs(text, begin + 1, open_parenthesis, words,
                               Append(word, c))

\* find_func_args(text, begin): begin is the 0-based index after the name
find_func_args(text, begin) ==
    IF begin >= Len(text)
    THEN [status |-> "IndexError", words |-> <<>>, end |-> -1]
    ELSE IF text[begin + 1] # "("
    THEN [status |-> "ValueError", words |-> <<>>, end |-> -1]
    ELSE ScanArgs(text, begin + 1, 1, <<>>, <<>>)

\* A macro function is an f-string over its parameters: a sequence of pieces,
\* each a literal text (arg = 0) or the arg-th parameter.
Lit(t) == [arg |-> 0, lit |-> t]
Arg(n) == [arg |-> n, lit |-> <<>>]
Func(arity, pieces) == [arity |-> arity, pieces |-> pieces]

RECURSIVE FString(_, _)
FString(pieces, words) ==
    IF pieces = <<>> THEN <<>>
    ELSE (IF Head(pieces).arg = 0 THEN Head(pieces).lit
          ELSE words[Head(pieces).arg]) \o FString(Tail(pieces), words)

\* func(*words): a call with the wrong number of arguments is a TypeError
CallFunc(func, words) ==
    IF Len(words) # func.arity
    THEN [status |-> "TypeError", text |-> <<>>]
    ELSE [status |-> "ok", text |-> FString(func.pieces, words)]

\* One iteration of the "while True" loop of apply_function(text, func_name,
\* func), on m = [status, text, begin, last]: status "run" while looping,
\* "ok" once the loop returned, else the exception; last is the
\* find_func_args call of this iteration
apply_function_step(m, func_name, func) ==
    LET begin == Find(m.text, func_name, m.begin)
    IN  IF begin = -1 THEN [m EXCEPT !.status = "ok"]
        ELSE LET r == find_func_args(m.text, begin + Len(func_name))
                 last == [name |-> func_name, text |-> m.text,
                          begin |-> begin + Len(func_name),
                          status |-> r.status, words |-> r.words, end |-> r.end]
             IN  IF r.status # "ok"
                 THEN [m EXCEPT !.status = r.status, !.begin = begin,
                                !.last = last]
                 ELSE LET out == CallFunc(func, r.words)
                      IN  IF out.status # "ok"
                          THEN [m EXCEPT !.status = out.status, !.begin = begin,
                                         !.last = last]
                          ELSE [m EXCEPT
                                  !.text = Slice(m.text, 0, begin) \o out.text
                                           \o Slice(m.text, r.end, Len(m.text)),
                                  !.begin = begin,
                                  !.last = last]

NoCall == [name |-> <<>>, text |-> <<>>, begin |-> 0, status |-> "none", words |-> <<>>, end |-> 0]

RECURSIVE ApplyLoop(_, _, _)
ApplyLoop(m, func_name, func) ==
    IF m.status # "run" THEN m
    ELSE ApplyLoop(apply_function_step(m, func_name, func), func_name, func)

\* apply_function(text, func_name, func): [status, text, ...]
apply_function(text, func_name, func) ==
    ApplyLoop([status |-> "run", text |-> text, begin |-> 0, last |-> NoCall],
              func_name, func)

(***************************************************************************)
(* get_constants_and_functions_*: the environment of one binding tuple.    *)
(* A dict is a function from names to values; a name and a value are       *)
(* texts.  The kinds modelled are "Int", "Obj" and (as a value) "Void".     *)
(***************************************************************************)

\* dict.update(e)
Update(d, e) ==
    [n \in DOMAIN d \cup DOMAIN e |-> IF n \in DOMAIN e THEN e[n] ELSE d[n]]

\* {k.replace("KEY_", to): v for k, v in d.items()}
RenameKeys(d, to) ==
    LET new(k) == Replace(k, <<"KEY_">>, to)
    IN  [n \in {new(k) : k \in DOMAIN d} |->
            d[CHOOSE k \in DOMAIN d : new(k) = n]]

\* one key: value pair of a dict display
Item(k, v) == [n \in {k} |-> v]

EmptyDict == [n \in {} |-> <<>>]

KEY_TYPE_NAME == <<"KEY_", "TYPE", "_NAME">>
PRIMITIVE_KEY_TYPE == <<"PRIMITIVE_", "KEY_", "TYPE">>
PRIMITIVE_KEY_TYPE_REAL == <<"PRIMITIVE_", "KEY_", "TYPE", "_REAL">>
KEY_TYPE_GENERIC_CLASS == <<"KEY_", "TYPE", "_GENERIC", "_CLASS">>
FASTUTIL_KEY_TYPE == <<"FASTUTIL_", "KEY_", "TYPE">>
FASTUTIL_KEY_PACKAGE == <<"FASTUTIL_", "KEY_", "PACKAGE">>
KEY_TYPE_GENERIC == <<"KEY_", "TYPE", "_GENERIC">>
KEY_TYPE_GENERIC_IN_TEMPLATE_LIST == <<"KEY_", "TYPE", "_GENERIC", "_IN_TEMPLATE_LIST">>
KEY_CAST_TO_GENERIC == <<"KEY_", "CAST_TO", "_GENERIC">>
KEY_SUPPRESS_WARNINGS_UNCHECKED == <<"KEY_", "SUPPRESS_WARNINGS_UNCHECKED">>
KEY_COMPARATOR == <<"KEY_", "COMPARATOR">>
KEY_PRIMITIVE_TO_BOXED == <<"KEY_", "PRIMITIVE_", "TO_BOXED">>
KEY_BOXED_TO_PRIMITIVE == <<"KEY_", "BOXED_TO_PRIMITIVE">>
COMPARE_KEY_DEFAULT == <<"COMPARE_", "KEY_", "DEFAULT">>
KEY_VALUE_GENERIC == <<"KEY_", "VALUE_", "GENERIC">>
KEY_VALUE_GENERIC_EMPTY == <<"KEY_", "VALUE_", "GENERIC", "_EMPTY">>
KEY_VALUE_PAIR == <<"KEY_", "VALUE_", "PAIR">>

\* the six values of the per-kind dict display, in the order of the source
KindRow(key_type, generic_name) ==
    IF key_type = "Void"
    THEN << <<"Void">>, <<"Void">>, <<"Void">>, <<"Void">>, <<"_NONE_">>,
            <<"_NONE_">> >>
    ELSE IF key_type = "Obj"
    THEN << <<"Obj">>, <<generic_name>>, <<"Object">>, <<generic_name>>,
            <<"Object">>, <<"it.unimi.dsi.fastutil.objects">> >>
    ELSE << <<"Int">>, <<"int">>, <<"int">>, <<"Integer">>, <<"Int">>,
            <<"it.unimi.dsi.fastutil.ints">> >>

\* "{a} <op> {b}"
Infix(op) == <<Arg(1), Lit(<<" ", op, " ">>), Arg(2)>>

\* "JGAlgoUtils.cmpDefault({a}, {b})" followed by tail
CmpDefault(tail) ==
    <<Lit(<<"JGAlgoUtils.cmpDefault", "(">>), Arg(1), Lit(<<",", " ">>), Arg(2),
      Lit(<<")">> \o tail)>>

get_constants_and_functions_key0(key_type, generic_name) ==
    LET row == KindRow(key_type, generic_name)
        base ==
            [n \in {KEY_TYPE_NAME, PRIMITIVE_KEY_TYPE, PRIMITIVE_KEY_TYPE_REAL,
                    KEY_TYPE_GENERIC_CLASS, FASTUTIL_KEY_TYPE,
                    FASTUTIL_KEY_PACKAGE} |->
                IF n = KEY_TYPE_NAME THEN row[1]
                ELSE IF n = PRIMITIVE_KEY_TYPE THEN row[2]
                ELSE IF n = PRIMITIVE_KEY_TYPE_REAL THEN row[3]
                ELSE IF n = KEY_TYPE_GENERIC_CLASS THEN row[4]
                ELSE IF n = FASTUTIL_KEY_TYPE THEN row[5]
                ELSE row[6]]
        generic ==
            IF key_type = "Obj"
            THEN [n \in {KEY_TYPE_GENERIC, KEY_TYPE_GENERIC_IN_TEMPLATE_LIST,
                         KEY_CAST_TO_GENERIC, KEY_SUPPRESS_WARNINGS_UNCHECKED,
                         KEY_COMPARATOR} |->
                    IF n = KEY_TYPE_GENERIC THEN <<"<", generic_name, ">">>
                    ELSE IF n = KEY_TYPE_GENERIC_IN_TEMPLATE_LIST
                    THEN <<",", " ", generic_name>>
                    ELSE IF n = KEY_CAST_TO_GENERIC THEN <<"(", generic_name, ")">>
                    ELSE IF n = KEY_SUPPRESS_WARNINGS_UNCHECKED
                    THEN <<"@SuppressWarnings", "(", "\"unchecked\"", ")">>
                    ELSE <<"Comparator">>]
            ELSE [n \in {KEY_TYPE_GENERIC, KEY_TYPE_GENERIC_IN_TEMPLATE_LIST,
                         KEY_CAST_TO_GENERIC, KEY_SUPPRESS_WARNINGS_UNCHECKED,
                         KEY_COMPARATOR} |->
                    IF n = KEY_COMPARATOR THEN row[5] \o <<"Comparator">>
                    ELSE <<>>]
        boxing ==
            [n \in {KEY_PRIMITIVE_TO_BOXED, KEY_BOXED_TO_PRIMITIVE} |->
                IF key_type \in {"Void", "Obj"} THEN Func(1, <<Arg(1)>>)
                ELSE IF n = KEY_PRIMITIVE_TO_BOXED
                THEN Func(1, <<Lit(<<"Integer.valueOf", "(">>), Arg(1),
                               Lit(<<")">>)>>)
                ELSE Func(1, <<Arg(1), Lit(<<".intValue", "(", ")">>)>>)]
        suffixes == {<<>>, <<"_EQ">>, <<"_NEQ">>, <<"_LE">>, <<"_LE", "Q">>,
                     <<"_GE">>, <<"_GE", "Q">>}
        op(sfx) == IF sfx = <<"_EQ">> THEN "=="
                   ELSE IF sfx = <<"_NEQ">> THEN "!="
                   ELSE IF sfx = <<"_LE">> THEN "<"
                   ELSE IF sfx = <<"_LE", "Q">> THEN "<="
                   ELSE IF sfx = <<"_GE">> THEN ">" ELSE ">="
        compare ==
            [n \in {COMPARE_KEY_DEFAULT \o sfx : sfx \in suffixes} |->
                LET sfx == SubSeq(n, Len(COMPARE_KEY_DEFAULT) + 1, Len(n))
                IN  IF key_type = "Obj"
                    THEN IF sfx = <<>> THEN Func(2, CmpDefault(<<>>))
                         ELSE Func(2, CmpDefault(<<" ", op(sfx), " ", "0">>))
                    ELSE IF sfx = <<>>
                         THEN Func(2, <<Lit(row[4] \o <<".compare", "(">>), Arg(1),
                                        Lit(<<",", " ">>), Arg(2), Lit(<<")">>)>>)
                         ELSE Func(2, Infix(op(sfx)))]
    IN  [constants |-> Update(base, generic), functions |-> Update(boxing, compare)]

get_constants_and_functions_key(key_type) ==
    get_constants_and_functions_key0(key_type, "K")

get_constants_and_functions_value(value_type) ==
    LET cf == get_constants_and_functions_key0(value_type, "V")
    IN  [constants |-> RenameKeys(cf.constants, <<"VALUE_">>),
         functions |-> RenameKeys(cf.functions, <<"VALUE_">>)]

get_constants_and_functions_key_value(key_type, value_type) ==
    LET k == get_constants_and_functions_key(key_type)
        v == get_constants_and_functions_value(value_type)
        constants == Update(k.constants, v.constants)
        generic == IF key_type = "Obj" /\ value_type = "Obj"
                   THEN <<"<", "K", ",", " ", "V", ">">>
                   ELSE IF key_type = "Obj" THEN <<"<", "K", ">">>
                   ELSE IF value_type = "Obj" THEN <<"<", "V", ">">>
                   ELSE <<>>
        pair == IF key_type = "Obj" /\ value_type = "Obj" THEN <<"Pair">>
                ELSE constants[FASTUTIL_KEY_TYPE]
                     \o constants[<<"FASTUTIL_", "VALUE_", "TYPE">>]
                     \o <<"Pair">>
    IN  [constants |->
            Update(constants,
                   Update(Item(KEY_VALUE_GENERIC, generic),
                          Update(Item(KEY_VALUE_GENERIC_EMPTY,
                                      IF generic = <<>> THEN <<>>
                                      ELSE <<"<", ">">>),
                                 Item(KEY_VALUE_PAIR, pair)))),
         functions |-> Update(k.functions, v.functions)]

get_constants_and_functions(type) ==
    LET cf == get_constants_and_functions_key0(type, "T")
    IN  [constants |-> RenameKeys(cf.constants, <<>>),
         functions |-> RenameKeys(cf.functions, <<>>)]

(***************************************************************************)
(* generate_sourcefile: constant substitution, macro stage, whole call     *)
(***************************************************************************)

\* every name an environment can hold, in the order of
\* sorted(names, reverse=True) on the names' characters
ReverseSortedNames ==
    << <<"WEIGHTS">>,
       <<"VALUE_", "TYPE", "_NAME">>,
       <<"VALUE_", "TYPE", "_GENERIC", "_IN_TEMPLATE_LIST">>,
       <<"VALUE_", "TYPE", "_GENERIC", "_CLASS">>,
       <<"VALUE_", "TYPE", "_GENERIC">>,
       <<"VALUE_", "SUPPRESS_WARNINGS_UNCHECKED">>,
       <<"VALUE_", "PRIMITIVE_", "TO_BOXED">>,
       <<"VALUE_", "COMPARATOR">>,
       <<"VALUE_", "CAST_TO", "_GENERIC">>,
       <<"VALUE_", "BOXED_TO_PRIMITIVE">>,
       <<"TYPE", "_NAME">>,
       <<"TYPE", "_GENERIC", "_IN_TEMPLATE_LIST">>,
       <<"TYPE", "_GENERIC", "_CLASS">>,
       <<"TYPE", "_GENERIC">>,
       <<"SUPPRESS_WARNINGS_UNCHECKED">>,
       <<"REFERENCEABLE_HEAP">>,
       <<"PRIMITIVE_", "VALUE_", "TYPE", "_REAL">>,
       <<"PRIMITIVE_", "VALUE_", "TYPE">>,
       <<"PRIMITIVE_", "TYPE", "_REAL">>,
       <<"PRIMITIVE_", "TYPE">>,
       <<"PRIMITIVE_", "TO_BOXED">>,
       <<"PRIMITIVE_", "KEY_", "TYPE", "_REAL">>,
       <<"PRIMITIVE_", "KEY_", "TYPE">>,
       <<"PAIRING_HEAP">>,
       <<"KEY_", "VALUE_", "PAIR">>,
       <<"KEY_", "VALUE_", "GENERIC", "_EMPTY">>,
       <<"KEY_", "VALUE_", "GENERIC">>,
       <<"KEY_", "TYPE", "_NAME">>,
       <<"KEY_", "TYPE", "_GENERIC", "_IN_TEMPLATE_LIST">>,
       <<"KEY_", "TYPE", "_GENERIC", "_CLASS">>,
       <<"KEY_", "TYPE", "_GENERIC">>,
       <<"KEY_", "SUPPRESS_WARNINGS_UNCHECKED">>,
       <<"KEY_", "PRIMITIVE_", "TO_BOXED">>,
       <<"KEY_", "COMPARATOR">>,
       <<"KEY_", "CAST_TO", "_GENERIC">>,
       <<"KEY_", "BOXED_TO_PRIMITIVE">>,
       <<"I", "WEIGHTS">>,
       <<"HEAP_REFERENCE">>,
       <<"FASTUTIL_", "VALUE_", "TYPE">>,
       <<"FASTUTIL_", "VALUE_", "PACKAGE">>,
       <<"FASTUTIL_", "TYPE">>,
       <<"FASTUTIL_", "PACKAGE">>,
       <<"FASTUTIL_", "KEY_", "TYPE">>,
       <<"FASTUTIL_", "KEY_", "PACKAGE">>,
       <<"COMPARE_", "VALUE_", "DEFAULT", "_NEQ">>,
       <<"COMPARE_", "VALUE_", "DEFAULT", "_LE", "Q">>,
       <<"COMPARE_", "VALUE_", "DEFAULT", "_LE">>,
       <<"COMPARE_", "VALUE_", "DEFAULT", "_GE", "Q">>,
       <<"COMPARE_", "VALUE_", "DEFAULT", "_GE">>,
       <<"COMPARE_", "VALUE_", "DEFAULT", "_EQ">>,
       <<"COMPARE_", "VALUE_", "DEFAULT">>,
       <<"COMPARE_", "KEY_", "DEFAULT", "_NEQ">>,
       <<"COMPARE_", "KEY_", "DEFAULT", "_LE", "Q">>,
       <<"COMPARE_", "KEY_", "DEFAULT", "_LE">>,
       <<"COMPARE_", "KEY_", "DEFAULT", "_GE", "Q">>,
       <<"COMPARE_", "KEY_", "DEFAULT", "_GE">>,
       <<"COMPARE_", "KEY_", "DEFAULT", "_EQ">>,
       <<"COMPARE_", "KEY_", "DEFAULT">>,
       <<"COMPARE_", "DEFAULT", "_NEQ">>,
       <<"COMPARE_", "DEFAULT", "_LE", "Q">>,
       <<"COMPARE_", "DEFAULT", "_LE">>,
       <<"COMPARE_", "DEFAULT", "_GE", "Q">>,
       <<"COMPARE_", "DEFAULT", "_GE">>,
       <<"COMPARE_", "DEFAULT", "_EQ">>,
       <<"COMPARE_", "DEFAULT">>,
       <<"COMPARATOR">>,
       <<"CAST_TO", "_GENERIC">>,
       <<"BOXED_TO_PRIMITIVE">> >>

\* the keys of sorted(d.items(), key=lambda kv: kv[0], reverse=True)
SortedReverse(d) == SelectSeq(ReverseSortedNames, LAMBDA n : n \in DOMAIN d)

RECURSIVE ReplaceAll(_, _, _)
\* "for constant, value in sorted_constants: text = text.replace(...)"
ReplaceAll(text, order, constants) ==
    IF order = <<>> THEN text
    ELSE ReplaceAll(Replace(text, Head(order), constants[Head(order)]),
                    Tail(order), constants)

substitute_constants(text, constants) ==
    ReplaceAll(text, SortedReverse(constants), constants)

RECURSIVE ApplyAll(_, _, _)
\* "for func_name, func in sorted_functions: text = apply_function(...)"
ApplyAll(res, order, functions) ==
    IF order = <<>> \/ res.status # "ok" THEN res
    ELSE LET r == apply_function(res.text, Head(order), functions[Head(order)])
         IN  ApplyAll([status |-> r.status, text |-> r.text], Tail(order),
                      functions)

expand_functions(text, functions) ==
    ApplyAll([status |-> "ok", text |-> text], SortedReverse(functions),
             functions)

\* generate_sourcefile up to the write: [status, text]; the output file is
\* written, with text, only when status = "ok"
generate_sourcefile(input, constants, functions) ==
    LET resolved == ResolveText(input, constants)
    IN  IF resolved.status # "ok"
        THEN [status |-> resolved.status, text |-> <<>>]
        ELSE expand_functions(substitute_constants(resolved.text, constants),
                              functions)

(***************************************************************************)
(* The template registry and generate_template_sources                     *)
(***************************************************************************)

\* a prefix that leaves the value kind out whatever it is
key_value_prefix_key_only(key_type, value_type) == <<key_type>>

\* lines 515-516
key_value_prefix(key_type, value_type) ==
    IF value_type # "Void" THEN <<key_type, value_type>> ELSE <<key_type>>

\* Two of the register_template declarations.  "types" is the declared
\* collection restricted to the modelled kinds; ordered is FALSE for the set
\* TYPE_ALL, whose iteration order Python does not fix, and TRUE for a list.
TEMPLATES ==
    << [template |-> "Weights.java.template",
        types |-> << <<"Int">>, <<"Obj">> >>, ordered |-> FALSE,
        config_func |-> "generate_weights",
        file_name_func |-> "Weights", flavor |-> "None"],
       [template |-> "ReferenceableHeap.java.template",
        types |-> << <<"Int", "Void">>, <<"Obj", "Obj">> >>, ordered |-> TRUE,
        config_func |-> "generate_referenceable_heap",
        file_name_func |-> "ReferenceableHeap", flavor |-> "None"] >>

TemplateNames == {TEMPLATES[i].template : i \in 1..Len(TEMPLATES)}

RECURSIVE Orderings(_)
Orderings(seq) ==
    IF seq = <<>> THEN {<<>>}
    ELSE UNION {{<<seq[i]>> \o p :
                    p \in Orderings(SubSeq(seq, 1, i - 1)
                                       \o SubSeq(seq, i + 1, Len(seq)))} :
                i \in 1..Len(seq)}

\* the orders in which "for types in template_entry['types']" may run
IterationOrders(entry) ==
    IF entry.ordered THEN {entry.types} ELSE Orderings(entry.types)

\* the match on template_entry["flavor"]
FlavorEnv(entry, types) ==
    IF entry.flavor = "None"
    THEN IF Len(types) = 2
         THEN get_constants_and_functions_key_value(types[1], types[2])
         ELSE get_constants_and_functions(types[1])
    ELSE IF entry.flavor = "key" THEN get_constants_and_functions_key(types[1])
    ELSE IF entry.flavor = "key_value"
    THEN get_constants_and_functions_key_value(types[1], types[2])
    ELSE IF entry.flavor = "value"
    THEN get_constants_and_functions_value(types[1])
    ELSE get_constants_and_functions(types[1])

generate_weights(types, constants) ==
    Update(constants,
           Update(Item(<<"I", "WEIGHTS">>, <<"I", "Weights", types[1]>>),
                  Item(<<"WEIGHTS">>, <<"Weights", types[1]>>)))

generate_referenceable_heap(types, constants) ==
    LET prefix == key_value_prefix(types[1], types[2])
    IN  Update(constants,
               Update(Item(<<"REFERENCEABLE_HEAP">>,
                           prefix \o <<"ReferenceableHeap">>),
                      Update(Item(<<"HEAP_REFERENCE">>,
                                  prefix \o <<"ReferenceableHeap.Ref">>),
                             Item(<<"PAIRING_HEAP">>,
                                  prefix \o <<"PairingHeap">>))))

\* template_entry["config_func"](*types, constants, functions)
config_func(entry, types, constants) ==
    IF entry.config_func = "generate_weights"
    THEN generate_weights(types, constants)
    ELSE generate_referenceable_heap(types, constants)

\* template_entry["file_name_func"](*types): the lambdas of lines 528 and
\* 568-571, and a lambda of two parameters that names the file after the
\* key kind alone
file_name_func(entry, types) ==
    IF entry.file_name_func = "Weights"
    THEN <<"graph/Weights", types[1], ".java">>
    ELSE IF entry.file_name_func = "ReferenceableHeap"
    THEN <<"internal/ds/">> \o key_value_prefix(types[1], types[2])
         \o <<"ReferenceableHeap.java">>
    ELSE <<"internal/ds/", types[1], "ReferenceableHeap.java">>

Paths ==
    {file_name_func(TEMPLATES[i], TEMPLATES[i].types[j]) :
        i \in 1..Len(TEMPLATES), j \in 1..2}

(***************************************************************************)
(* main(): the incremental driver and hashes.json                          *)
(***************************************************************************)

VARIABLES
    pc,                   \* where main() stands; "idle" between runs
    files,                \* content of each template file (index in TemplateTexts)
    hashesFile,           \* hashes.json: [state, hashes]
    hashes,               \* the dict read by read_last_generated_templates_hashes
    idx,                  \* position of "for generator in TEMPLATES" (1-based)
    pending,              \* binding tuples the current template still has to expand
    local_files,          \* generate_template_sources' list generated_files
    generated_files,      \* main's list of output paths of this run
    is_template_changed,  \* main's flag
    outputs,              \* the generated files present on disk
    buffer,               \* the JSON text built by write_generated_templates
    run,                  \* record of the current or last run (history)
    prev,                 \* summary of the run before it (history)
    resolver,             \* one parse-and-resolve of a template text
    macro,                \* one macro expansion stage
    gen,                  \* repeated generate_template_sources of one template
    lookup,               \* two registered (template, tuple) pairs and their paths
    evaluation            \* one evaluation of a condition

vars == <<pc, files, hashesFile, hashes, idx, pending, local_files, generated_files,
          is_template_changed, outputs, buffer, run, prev, resolver, macro, gen, lookup, evaluation>>

driverVars == <<pc, files, hashesFile, hashes, idx, pending, local_files, generated_files,
                is_template_changed, outputs, buffer, run, prev>>

\* the template texts a template file may hold: three that expand for every
\* binding tuple (the last with a macro call), and one whose expansion
\* raises for kind "Obj" under get_constants_and_functions (ValueError) and
\* for every tuple under get_constants_and_functions_key_value (NameError)
TemplateTexts ==
    << <<"class", " ", "WEIGHTS", "\n">>,
       <<"#if ", "TYPE", "_NAME", " ", "==", " ", "\"Obj\"", "\n",
         "PRIMITIVE_", "TO_BOXED", "\n", "#endif", "\n">>,
       <<"#if ", "True", "\n", "I", "WEIGHTS", "\n", "#else", "\n", "y", "\n",
         "#endif">>,
       <<"PRIMITIVE_", "TO_BOXED", "(", "x", ")", " ", "PRIMITIVE_", "TYPE",
         "\n">> >>

Contents == 1..Len(TemplateTexts)

\* hashlib.md5(content).hexdigest(): the digest of a file content
compute_template_hash(content) == [md5 |-> content]

Absent == [state |-> "absent", hashes |-> EmptyDict]

\* json.loads of the record; called only when the file exists
ReadHashes(file) ==
    IF file.state = "valid" THEN [status |-> "ok", hashes |-> file.hashes]
    ELSE [status |-> "JSONDecodeError", hashes |-> EmptyDict]

\* a change test that overlooks a differing digest
is_template_changed_absent_only(stored, template, content) ==
    template \notin DOMAIN stored

\* a change test that takes a template without a stored digest as unchanged
is_template_changed_present_only(stored, template, content) ==
    IF template \in DOMAIN stored
    THEN stored[template] # compute_template_hash(content)
    ELSE FALSE

\* read_last_generated_templates_hashes.is_template_changed:
\* hashes.get(template_file) != template_hash
is_template_changed_func(stored, template, content) ==
    IF template \in DOMAIN stored
    THEN stored[template] # compute_template_hash(content)
    ELSE TRUE

\* the dict dumped by write_generated_templates
CurrentHashes(contentOf) ==
    [t \in TemplateNames |-> compute_template_hash(contentOf[t])]

NoRun ==
    [mode |-> "none", outcome |-> "none", startFiles |-> [t \in TemplateNames |-> 1],
     startHashesFile |-> Absent, expanded |-> {}, written |-> <<>>,
     formatter |-> "not_run",
     cacheWrites |-> 0, failedAt |-> <<>>, read |-> {}]

IdleResolver == [stage |-> "off"]
IdleMacro == [stage |-> "off"]
IdleGen == [stage |-> "off"]
IdleLookup == [stage |-> "off"]
IdleEval == [stage |-> "off"]

Init ==
    /\ pc = "idle"
    /\ files \in [TemplateNames -> Contents]
    /\ hashesFile = Absent
    /\ hashes = EmptyDict
    /\ idx = 1
    /\ pending = <<>>
    /\ local_files = <<>>
    /\ generated_files = <<>>
    /\ is_template_changed = FALSE
    /\ outputs = {}
    /\ buffer = EmptyDict
    /\ run = NoRun
    /\ prev = [mode |-> "none", outcome |-> "none", same |-> {}]
    /\ resolver = IdleResolver
    /\ macro = IdleMacro
    /\ gen = IdleGen
    /\ lookup = IdleLookup
    /\ evaluation = IdleEval

\* what a run that starts now remembers of the run before it: its mode and
\* outcome, and the templates whose digest is the same at both runs
Previous ==
    [mode |-> run.mode, outcome |-> run.outcome,
     same |-> {t \in TemplateNames :
                 compute_template_hash(files[t])
                     = compute_template_hash(run.startFiles[t])}]

\* somebody edits a template file between two runs
EditTemplate ==
    /\ pc = "idle"
    /\ \E t \in TemplateNames, c \in Contents :
        /\ files[t] # c
        /\ files' = [files EXCEPT ![t] = c]
    /\ UNCHANGED <<pc, hashesFile, hashes, idx, pending, local_files,
                   generated_files, is_template_changed, outputs, buffer, run,
                   prev, resolver, macro, gen, lookup, evaluation>>

\* main() with --clean: clean()
Clean ==
    /\ pc = "idle"
    /\ hashesFile' = Absent
    /\ outputs' = {}
    /\ prev' = Previous
    /\ run' = [NoRun EXCEPT !.mode = "clean", !.outcome = "cleaned",
                            !.startFiles = files, !.startHashesFile = hashesFile]
    /\ UNCHANGED <<pc, files, hashes, idx, pending, local_files,
                   generated_files, is_template_changed, buffer, resolver, macro,
                   gen, lookup, evaluation>>

\* main() without --clean, lines 1048-1051
StartRun ==
    /\ pc = "idle"
    /\ prev' = Previous
    /\ generated_files' = <<>>
    /\ is_template_changed' = FALSE
    /\ idx' = 1
    /\ pending' = <<>>
    /\ local_files' = <<>>
    /\ LET r == IF hashesFile.state = "absent"
                THEN [status |-> "ok", hashes |-> EmptyDict]
                ELSE ReadHashes(hashesFile)
           started == [NoRun EXCEPT !.mode = "incremental", !.outcome = "running",
                                    !.startFiles = files,
                                    !.startHashesFile = hashesFile]
       IN  IF r.status = "ok"
           THEN /\ hashes' = r.hashes
                /\ pc' = "loop"
                /\ run' = started
           ELSE /\ hashes' = hashes
                /\ pc' = "idle"
                /\ run' = [started EXCEPT !.outcome = "cache_read_failed"]
    /\ UNCHANGED <<files, hashesFile, outputs, buffer, resolver, macro, gen, lookup, evaluation>>

\* lines 1052-1055: one iteration of "for generator in TEMPLATES" up to the
\* call of generate_template_sources
CheckTemplate ==
    /\ pc = "loop"
    /\ idx <= Len(TEMPLATES)
    /\ LET entry == TEMPLATES[idx]
       IN  IF is_template_changed_func(hashes, entry.template, files[entry.template])
           THEN /\ is_template_changed' = TRUE
                /\ pc' = "expand"
                /\ pending' \in IterationOrders(entry)
                /\ local_files' = <<>>
                /\ run' = [run EXCEPT !.expanded = @ \cup {entry.template}]
                /\ idx' = idx
           ELSE /\ idx' = idx + 1
                /\ UNCHANGED <<is_template_changed, pc, pending, local_files, run>>
    /\ UNCHANGED <<files, hashesFile, hashes, generated_files, outputs, buffer,
                   prev, resolver, macro, gen, lookup, evaluation>>

\* an except clause that logs the failure and goes on
PropagatesNever(status) == FALSE

\* the try/except of lines 502-510: an exception of generate_sourcefile is
\* raised again and ends main()
Propagates(status) == status # "ok"

\* an environment built once and kept: the dicts of the tuple before are
\* used again for the next tuple of the same call
BuildEnvOnce(entry, types) ==
    LET cf == FlavorEnv(entry,
                        IF gen.stage = "off" \/ gen.env = <<>> THEN types
                        ELSE gen.env)
    IN  [constants |-> config_func(entry, types, cf.constants),
         functions |-> cf.functions]

\* lines 477-499: the environment of one binding tuple, built afresh
BuildEnv(entry, types) ==
    LET cf == FlavorEnv(entry, types)
    IN  [constants |-> config_func(entry, types, cf.constants),
         functions |-> cf.functions]

\* lines 477-501: the environment of one binding tuple and the call of
\* generate_sourcefile on the template's text
generate_one(entry, types, text) ==
    LET env == BuildEnv(entry, types)
    IN  generate_sourcefile(text, env.constants, env.functions)

\* a loop that logs a failed tuple and goes on with the next one
AfterGenerateContinue(entry, types, filename, r) ==
    /\ outputs' = IF r.status = "ok" THEN outputs \cup {filename} ELSE outputs
    /\ run' = [run EXCEPT
                 !.written = IF r.status = "ok" THEN Append(@, filename) ELSE @,
                 !.failedAt = IF r.status = "ok" THEN @
                              ELSE <<entry.template, types>>,
                 !.read = @ \cup {<<entry.template, files[entry.template]>>}]
    /\ pending' = Tail(pending)
    /\ IF Tail(pending) = <<>>
       THEN /\ generated_files' = generated_files \o Append(local_files, filename)
            /\ local_files' = <<>>
            /\ idx' = idx + 1
            /\ pc' = "loop"
       ELSE /\ local_files' = Append(local_files, filename)
            /\ UNCHANGED <<generated_files, idx, pc>>

\* lines 502-511: what follows the call, r being its result; run.read
\* remembers the content that open(input_filename).read() (line 110) returned
AfterGenerate(entry, types, filename, r) ==
    IF Propagates(r.status)
    THEN /\ pc' = "idle"
         /\ run' = [run EXCEPT !.outcome = "expansion_failed",
                               !.failedAt = <<entry.template, types>>,
                               !.read = @ \cup {<<entry.template,
                                                  files[entry.template]>>}]
         /\ UNCHANGED <<idx, pending, local_files, generated_files, outputs>>
    ELSE /\ outputs' = IF r.status = "ok" THEN outputs \cup {filename}
                       ELSE outputs
         /\ run' = [run EXCEPT
                      !.written = IF r.status = "ok"
                                  THEN Append(@, filename) ELSE @,
                      !.failedAt = IF r.status = "ok" THEN @
                                   ELSE <<entry.template, types>>,
                      !.read = @ \cup {<<entry.template,
                                         files[entry.template]>>}]
         /\ pending' = Tail(pending)
         /\ IF Tail(pending) = <<>>
            THEN /\ generated_files' = generated_files
                                       \o Append(local_files, filename)
                 /\ local_files' = <<>>
                 /\ idx' = idx + 1
                 /\ pc' = "loop"
            ELSE /\ local_files' = Append(local_files, filename)
                 /\ UNCHANGED <<generated_files, idx, pc>>

\* lines 476-511: one iteration of "for types in template_entry['types']"
ExpandTuple ==
    /\ pc = "expand"
    /\ pending # <<>>
    /\ AfterGenerate(TEMPLATES[idx], Head(pending),
                     file_name_func(TEMPLATES[idx], Head(pending)),
                     generate_one(TEMPLATES[idx], Head(pending),
                                  TemplateTexts[files[TEMPLATES[idx].template]]))
    /\ UNCHANGED <<files, hashesFile, hashes, is_template_changed, buffer, prev,
                   resolver, macro, gen, lookup, evaluation>>

\* a driver without the early return
nothing_to_do_never(changed) == FALSE

\* line 1057: "if not is_template_changed"
nothing_to_do(changed) == ~changed

\* lines 1057-1059: the end of the loop
EndLoop ==
    /\ pc = "loop"
    /\ idx > Len(TEMPLATES)
    /\ IF nothing_to_do(is_template_changed)
       THEN /\ pc' = "idle"
            /\ run' = [run EXCEPT !.outcome = "noop"]
       ELSE /\ pc' = "format"
            /\ run' = run
    /\ UNCHANGED <<files, hashesFile, hashes, idx, pending, local_files,
                   generated_files, is_template_changed, outputs, buffer, prev,
                   resolver, macro, gen, lookup, evaluation>>

\* what format_source_files can do: find no eclipse and return, format the
\* files and return, or raise (the style file does not parse, eclipse exits
\* with a non-zero status)
FormatterOutcomes == {"missing", "ok", "raised"}

\* a formatter step whose failure is swallowed: main() goes on to the write
format_source_files_lenient ==
    /\ pc = "format"
    /\ \E o \in FormatterOutcomes :
        /\ pc' = "write"
        /\ run' = [run EXCEPT !.formatter = o]
    /\ UNCHANGED <<files, hashesFile, hashes, idx, pending, local_files,
                   generated_files, is_template_changed, outputs, buffer, prev,
                   resolver, macro, gen, lookup, evaluation>>

\* line 1061: format_source_files(generated_files)
format_source_files ==
    /\ pc = "format"
    /\ \E o \in FormatterOutcomes :
        IF o = "raised"
        THEN /\ pc' = "idle"
             /\ run' = [run EXCEPT !.formatter = o, !.outcome = "format_failed"]
        ELSE /\ pc' = "write"
             /\ run' = [run EXCEPT !.formatter = o]
    /\ UNCHANGED <<files, hashesFile, hashes, idx, pending, local_files,
                   generated_files, is_template_changed, outputs, buffer, prev,
                   resolver, macro, gen, lookup, evaluation>>

\* write_generated_templates, lines 1027-1033: the digests are computed and
\* open(HASHES_FILENAME, "w") creates or truncates the file
WriteOpen ==
    /\ pc = "write"
    /\ buffer' = CurrentHashes(files)
    /\ hashesFile' = [state |-> "truncated", hashes |-> EmptyDict]
    /\ pc' = "write_data"
    /\ UNCHANGED <<files, hashes, idx, pending, local_files, generated_files,
                   is_template_changed, outputs, run, prev, resolver, macro, gen, lookup, evaluation>>

\* write_generated_templates, line 1034: the text is written and the file
\* closed; main() returns
WriteData ==
    /\ pc = "write_data"
    /\ hashesFile' = [state |-> "valid", hashes |-> buffer]
    /\ pc' = "idle"
    /\ run' = [run EXCEPT !.outcome = "written", !.cacheWrites = @ + 1]
    /\ UNCHANGED <<files, hashes, idx, pending, local_files, generated_files,
                   is_template_changed, outputs, buffer, prev, resolver, macro,
                   gen, lookup, evaluation>>

\* the process is killed (signal, power loss) inside the "with" block of
\* lines 1033-1034, after open() truncated the file and before the text
\* reached it
Interrupt ==
    /\ pc = "write_data"
    /\ pc' = "idle"
    /\ run' = [run EXCEPT !.outcome = "interrupted"]
    /\ UNCHANGED <<files, hashesFile, hashes, idx, pending, local_files,
                   generated_files, is_template_changed, outputs, buffer, prev,
                   resolver, macro, gen, lookup, evaluation>>

Next ==
    \/ EditTemplate
    \/ Clean
    \/ StartRun
    \/ CheckTemplate
    \/ ExpandTuple
    \/ EndLoop
    \/ format_source_files
    \/ WriteOpen
    \/ WriteData
    \/ Interrupt

Spec == Init /\ [][Next]_vars

(***************************************************************************)
(* Properties of the incremental driver (specification Spec)               *)
(***************************************************************************)

TemplateIndex(t) == CHOOSE i \in 1..Len(TEMPLATES) : TEMPLATES[i].template = t

\* the output paths of a template
PathsOf(t) ==
    LET entry == TEMPLATES[TemplateIndex(t)]
    IN  {file_name_func(entry, entry.types[j]) : j \in 1..Len(entry.types)}

Written == {run.written[k] : k \in 1..Len(run.written)}

\* an incremental run has ended (main() returned or raised)
RunEnded == pc = "idle" /\ run.mode = "incremental"

\* the digest map the run found at its start: empty when there was no record
StoredAtStart ==
    IF run.startHashesFile.state = "valid" THEN run.startHashesFile.hashes
    ELSE EmptyDict

\* "changed" as the specification words it, on the state the run started from
ChangedAtStart(t) ==
    \/ t \notin DOMAIN StoredAtStart
    \/ StoredAtStart[t] # [md5 |-> run.startFiles[t]]

\* the run raised while expanding a template that precedes t in TEMPLATES
AbortedBefore(t) ==
    /\ run.failedAt # <<>>
    /\ TemplateIndex(run.failedAt[1]) < TemplateIndex(t)

NotReExpanded(t) == t \notin run.expanded /\ PathsOf(t) \cap Written = {}

\* C1 as stated: of two consecutive incremental runs, the second does not
\* re-expand (writes no output of) a template whose digest is the same at
\* both runs, and re-expands a template whose digest differs.
C1_AsStated ==
    (RunEnded /\ prev.mode = "incremental") =>
        \A t \in TemplateNames :
            /\ t \in prev.same => NotReExpanded(t)
            /\ t \notin prev.same => t \in run.expanded

\* C1 (amended): of two consecutive incremental runs of which the first
\* returned normally (it wrote the record or found nothing changed), the
\* second does not re-expand a template whose digest is the same at both runs,
\* and re-expands a template whose digest differs unless it raises on an
\* earlier template.
C1_IncrementalSkip ==
    (RunEnded /\ prev.mode = "incremental" /\ prev.outcome \in {"written", "noop"}) =>
        \A t \in TemplateNames :
            /\ t \in prev.same => NotReExpanded(t)
            /\ (t \notin prev.same /\ ~AbortedBefore(t)) => t \in run.expanded

C1_Witness ==
    /\ RunEnded
    /\ prev.mode = "incremental"
    /\ prev.outcome = "written"
    /\ run.outcome = "written"
    /\ \E t \in prev.same : NotReExpanded(t)
    /\ \E t \in TemplateNames \ prev.same : t \in run.expanded

\* C2: once an expansion has raised in a run, hashes.json holds what it held
\* when the run started, and write_generated_templates is not reached.
C2_FailureKeepsCache ==
    (run.mode = "incremental" /\ run.failedAt # <<>>) =>
        /\ hashesFile = run.startHashesFile
        /\ run.cacheWrites = 0
        /\ pc \notin {"write", "write_data"}

C2_Witness ==
    /\ RunEnded
    /\ run.failedAt # <<>>
    /\ run.startHashesFile.state = "valid"
    /\ run.written # <<>>

\* C3 as stated: after a run in which a template changed and every changed
\* template expanded without raising, hashes.json holds one entry for every
\* registered template, changed or not, equal to its current digest.
C3_AsStated ==
    (RunEnded /\ run.expanded # {} /\ run.failedAt = <<>>) =>
        hashesFile = [state |-> "valid", hashes |-> CurrentHashes(run.startFiles)]

\* C4 as stated: in an incremental run a template is expanded exactly when
\* it has no stored digest or its digest differs from the stored one; with no
\* record at the start every template is expanded.
C4_AsStated ==
    (RunEnded /\ run.outcome # "cache_read_failed") =>
        /\ \A t \in TemplateNames : t \in run.expanded <=> ChangedAtStart(t)
        /\ run.startHashesFile.state = "absent" => run.expanded = TemplateNames

\* C4 (amended): a template the run reaches (no expansion of an earlier
\* template raised) is expanded exactly when it has no stored digest or its
\* digest differs from the stored one; with no record at the start every
\* template the run reaches is expanded.
C4_ExpandedIffChanged ==
    (run.mode = "incremental" /\ run.outcome # "cache_read_failed") =>
        \A t \in TemplateNames :
            /\ t \in run.expanded => ChangedAtStart(t)
            /\ (TemplateIndex(t) < idx /\ ChangedAtStart(t)) => t \in run.expanded
            /\ (RunEnded /\ ~AbortedBefore(t) /\ run.failedAt = <<>>) =>
                   (t \in run.expanded <=> ChangedAtStart(t))
            /\ (RunEnded /\ ~AbortedBefore(t)
                    /\ run.startHashesFile.state = "absent") => t \in run.expanded

C4_Witness ==
    /\ RunEnded
    /\ run.startHashesFile.state = "valid"
    /\ \E t \in TemplateNames : t \in run.expanded
    /\ \E t \in TemplateNames : t \notin run.expanded /\ ~AbortedBefore(t)

\* C5: an incremental run that finds no template changed writes no output
\* file, does not call the formatter and does not write hashes.json.
C5_NoChangeNoOp ==
    (RunEnded /\ run.outcome # "cache_read_failed"
        /\ \A t \in TemplateNames : ~ChangedAtStart(t)) =>
        /\ run.written = <<>>
        /\ run.formatter = "not_run"
        /\ run.cacheWrites = 0
        /\ hashesFile = run.startHashesFile
        /\ run.outcome = "noop"

C5_Witness ==
    /\ RunEnded
    /\ run.outcome = "noop"
    /\ \A t \in TemplateNames : ~ChangedAtStart(t)
    /\ outputs # {}

(***************************************************************************)
(* One parse-and-resolve of a template text: lines 110-190 on their own    *)
(***************************************************************************)

\* longest template text drawn lexeme by lexeme
MaxRawLen == 4

\* most "#elif" arms of a drawn conditional chain
MaxElifs == 2

\* the driver at rest, while a stage of generate_sourcefile runs on its own
DriverAtRest ==
    /\ pc = "idle"
    /\ files = [t \in TemplateNames |-> 1]
    /\ hashesFile = Absent
    /\ hashes = EmptyDict
    /\ idx = 1
    /\ pending = <<>>
    /\ local_files = <<>>
    /\ generated_files = <<>>
    /\ is_template_changed = FALSE
    /\ outputs = {}
    /\ buffer = EmptyDict
    /\ run = NoRun
    /\ prev = [mode |-> "none", outcome |-> "none", same |-> {}]

\* the kinds a template is expanded for
Kinds == {"Int", "Obj"}

\* template texts drawn lexeme by lexeme: literal text, both line
\* boundaries, and directives in any arrangement
RawLexemes == {"x", "\n", "\f", "#if ", "#elif ", "#else", "#endif", "True"}

RawTexts == UNION {[1..k -> RawLexemes] : k \in 0..MaxRawLen}

\* conditions of a drawn chain
Conds ==
    {<<"True">>, <<"False">>,
     <<"TYPE", "_NAME", " ", "==", " ", "\"Obj\"">>, <<"UNDEFINED_NAME">>}

\* a chain with one "#if" arm and an optional "#else", nested in an arm
InnerChains == [conds : {<< <<"True">> >>, << <<"False">> >>}, hasElse : BOOLEAN]

NoInner == [conds |-> << <<"True">> >>, hasElse |-> FALSE]

NumArms(c) == Len(c.conds) + (IF c.hasElse THEN 1 ELSE 0)

\* well-formed chains: an "#if" arm, up to MaxElifs "#elif" arms, an optional
\* "#else" arm; arm nestAt (if not 0) holds a chain of its own; the text
\* of a chain without one ends with a newline or not
Chains ==
    {c \in [family : {"chain"},
            conds : UNION {[1..k -> Conds] : k \in 1..(MaxElifs + 1)},
            hasElse : BOOLEAN,
            nestAt : 0..(MaxElifs + 2),
            inner : InnerChains,
            newline : BOOLEAN] :
        /\ c.nestAt <= NumArms(c)
        /\ c.nestAt = 0 => c.inner = NoInner
        /\ c.nestAt # 0 => c.newline}

\* the one line that is the body of arm k of the chain named tag
Marker(tag, k) == <<tag, ToString(k)>>

\* the directive line that opens arm k
ArmHead(c, k) ==
    IF k = 1 THEN <<"#if ">> \o c.conds[1]
    ELSE IF k <= Len(c.conds) THEN <<"#elif ">> \o c.conds[k]
    ELSE <<"#else">>

RECURSIVE ArmsFrom(_, _, _, _, _)
\* the lines of arms k.. of chain c, closed by "#endif"; nested is the
\* lines nested in arm nestAt
ArmsFrom(c, tag, k, nestAt, nested) ==
    IF k > NumArms(c) THEN << <<"#endif">> >>
    ELSE <<ArmHead(c, k), Marker(tag, k)>>
         \o (IF k = nestAt THEN nested ELSE <<>>)
         \o ArmsFrom(c, tag, k + 1, nestAt, nested)

\* the template text of a chain: a line, the chain, a line
ChainText(c) ==
    LET lines == << <<"pre">> >>
                 \o ArmsFrom(c, "a", 1, c.nestAt,
                             ArmsFrom(c.inner, "b", 1, 0, <<>>))
                 \o << <<"post">> >>
    IN  Join(lines, <<"\n">>) \o (IF c.newline THEN <<"\n">> ELSE <<>>)

MaxLines == 4

\* whole lines a template is made of: directives and a literal line
TemplateLines ==
    {<<"#if ", "True">>, <<"#if ", "False">>, <<"#elif ", "False">>,
     <<"#else">>, <<"#endif">>, <<"x">>}

\* the texts of at most MaxLines such lines
LineTexts ==
    {Join(ls, <<"\n">>) :
        ls \in UNION {[1..k -> TemplateLines] : k \in 1..MaxLines}}

\* the inputs of one parse-and-resolve: a text, what it was drawn as, and
\* the kind whose constants the conditions are evaluated in
ResolverInputs ==
    {[stage |-> "input", shape |-> [family |-> "raw"], text |-> t,
      kind |-> "Int"] : t \in RawTexts}
    \cup {[stage |-> "input", shape |-> [family |-> "lines"], text |-> t,
            kind |-> "Int"] : t \in LineTexts}
    \cup {[stage |-> "input", shape |-> c, text |-> ChainText(c), kind |-> k] :
            c \in Chains, k \in Kinds}

InitResolve ==
    /\ DriverAtRest
    /\ resolver \in ResolverInputs
    /\ macro = IdleMacro
    /\ gen = IdleGen
    /\ lookup = IdleLookup
    /\ evaluation = IdleEval

\* lines 110-147: the text is read and parsed into the block tree
ParseTemplate ==
    /\ resolver.stage = "input"
    /\ resolver' = [stage |-> "parsed", shape |-> resolver.shape,
                    text |-> resolver.text, kind |-> resolver.kind,
                    parsed |-> ParseBlocks(resolver.text)]
    /\ UNCHANGED <<driverVars, macro, gen, lookup, evaluation>>

\* lines 149-190: the tree is resolved under the kind's constants
ResolveTemplate ==
    /\ resolver.stage = "parsed"
    /\ resolver' = [stage |-> "done", shape |-> resolver.shape,
                    text |-> resolver.text, kind |-> resolver.kind,
                    parsed |-> resolver.parsed,
                    out |-> ResolveParsed(
                                resolver.parsed,
                                get_constants_and_functions(resolver.kind).constants)]
    /\ UNCHANGED <<driverVars, macro, gen, lookup, evaluation>>

\* the output file of the call: not written, or written with a text
NoFile == [state |-> "absent", text |-> <<>>]

\* lines 192-204 for a resolved text, res being the result of the
\* substitution and macro stages: the output file is opened and written
\* when no stage raised
FinishWith(res) ==
    resolver' = [stage |-> "end", shape |-> resolver.shape,
                 text |-> resolver.text, kind |-> resolver.kind,
                 parsed |-> resolver.parsed, out |-> resolver.out,
                 status |-> res.status,
                 file |-> IF res.status = "ok"
                          THEN [state |-> "written", text |-> res.text]
                          ELSE NoFile]

\* lines 192-204: constant substitution, macro stage and the write, or the
\* exception of the resolver leaving generate_sourcefile
FinishTemplate ==
    /\ resolver.stage = "done"
    /\ IF resolver.out.status # "ok"
       THEN FinishWith([status |-> resolver.out.status, text |-> <<>>])
       ELSE FinishWith(expand_functions(
                substitute_constants(
                    resolver.out.text,
                    get_constants_and_functions(resolver.kind).constants),
                get_constants_and_functions(resolver.kind).functions))
    /\ UNCHANGED <<driverVars, macro, gen, lookup, evaluation>>

NextResolve ==
    \/ ParseTemplate
    \/ ResolveTemplate
    \/ FinishTemplate

SpecResolve == InitResolve /\ [][NextResolve]_vars

(***************************************************************************)
(* Properties of the parse-and-resolve stage                               *)
(***************************************************************************)

RECURSIVE FirstTrue(_, _, _)
\* the first arm from k on whose condition is true: its index, 0 when every
\* condition is false, -1 when a condition raises before one is true
FirstTrue(conds, k, constants) ==
    IF k > Len(conds) THEN 0
    ELSE IF eval_condition(conds[k], constants) = "true" THEN k
    ELSE IF eval_condition(conds[k], constants) = "false"
    THEN FirstTrue(conds, k + 1, constants)
    ELSE -1

\* the arm of chain c the claim names: the first whose condition is true,
\* the "#else" arm when none is, 0 when there is neither
ArmToShow(c, constants) ==
    IF FirstTrue(c.conds, 1, constants) = 0 /\ c.hasElse THEN Len(c.conds) + 1
    ELSE FirstTrue(c.conds, 1, constants)

\* chain c was resolved under constants and no condition that had to be
\* evaluated raised
ChainResolved(c, constants) ==
    /\ resolver.stage = "done"
    /\ c.family = "chain"
    /\ ArmToShow(c, constants) # -1
    /\ (c.nestAt # 0 /\ c.nestAt = ArmToShow(c, constants))
       => ArmToShow(c.inner, constants) # -1

\* the arms of the chain named tag whose line is among lines
ArmsShown(c, tag, lines) ==
    {k \in 1..NumArms(c) : \E i \in 1..Len(lines) : lines[i] = Marker(tag, k)}

\* C6 as stated: the resolved output of a well-formed chain holds the lines
\* of exactly one arm, the first whose condition is true or the else arm
C6_AsStated ==
    LET c == resolver.shape
        constants == get_constants_and_functions(resolver.kind).constants
    IN  ChainResolved(c, constants) =>
            /\ resolver.out.status = "ok"
            /\ Cardinality(ArmsShown(c, "a", Splitlines(resolver.out.text))) = 1
            /\ ArmsShown(c, "a", Splitlines(resolver.out.text))
                   = {ArmToShow(c, constants)}

\* C6 (amended): the resolved output of a well-formed chain holds the lines
\* of at most one arm: the first arm whose condition is true, else the
\* "#else" arm, and no arm at all when no condition is true and the chain
\* has no "#else"; a chain nested in an arm is resolved the same way when
\* that arm is shown and leaves no line otherwise; the lines around the
\* chain are kept
C6_AtMostOneArm ==
    LET c == resolver.shape
        constants == get_constants_and_functions(resolver.kind).constants
        s == ArmToShow(c, constants)
        si == ArmToShow(c.inner, constants)
        lines == Splitlines(resolver.out.text)
    IN  ChainResolved(c, constants) =>
            /\ resolver.out.status = "ok"
            /\ ArmsShown(c, "a", lines) = (IF s = 0 THEN {} ELSE {s})
            /\ c.nestAt # 0 =>
                  ArmsShown(c.inner, "b", lines)
                      = (IF c.nestAt = s /\ si # 0 THEN {si} ELSE {})
            /\ lines
                  = << <<"pre">> >>
                    \o (IF s = 0 THEN <<>> ELSE <<Marker("a", s)>>)
                    \o (IF c.nestAt # 0 /\ c.nestAt = s /\ si # 0
                        THEN <<Marker("b", si)>> ELSE <<>>)
                    \o << <<"post">> >>

\* a chain whose second arm is the first true one, followed by further
\* arms, was resolved, and so was the chain nested in that arm
C6_Witness ==
    LET c == resolver.shape
        constants == get_constants_and_functions(resolver.kind).constants
    IN  /\ ChainResolved(c, constants)
        /\ resolver.out.status = "ok"
        /\ NumArms(c) >= 3
        /\ ArmToShow(c, constants) = 2
        /\ c.nestAt = 2
        /\ ArmToShow(c.inner, constants) = 2
        /\ ArmsShown(c, "a", Splitlines(resolver.out.text)) = {2}

DirectiveLexemes == {"#if ", "#elif ", "#else", "#endif"}

\* a text drawn lexeme by lexeme that holds no directive was resolved
PlainResolved ==
    /\ resolver.stage = "done"
    /\ resolver.shape.family = "raw"
    /\ \A i \in 1..Len(resolver.text) : resolver.text[i] \notin DirectiveLexemes

\* C7 as stated: for a template without directive lines the resolved text is
\* the input text, with one newline added at the end when the input lacks it
C7_AsStated ==
    PlainResolved =>
        /\ resolver.out.status = "ok"
        /\ resolver.out.text
               = (IF resolver.text # <<>>
                     /\ resolver.text[Len(resolver.text)] = "\n"
                  THEN resolver.text
                  ELSE resolver.text \o <<"\n">>)

(***************************************************************************)
(* C21: the order in which the conditions of a chain are evaluated         *)
(***************************************************************************)

RECURSIVE EvaluatedOf(_, _, _)
\* the conditions from the k-th on that are evaluated when arms are taken
\* in declared order and the first condition that is true, or that raises,
\* ends the evaluation
EvaluatedOf(conds, k, constants) ==
    IF k > Len(conds) THEN <<>>
    ELSE IF eval_condition(conds[k], constants) = "false"
    THEN <<conds[k]>> \o EvaluatedOf(conds, k + 1, constants)
    ELSE <<conds[k]>>

\* C21: the conditions of a chain are evaluated in declared order up to
\* the first that is true (or raises) and no further, so that an undefined
\* name in the condition of a later arm does not raise; the chain nested in
\* the matching arm is evaluated the same way, after the arm matched; when
\* no condition is true the "#else" arm, if there is one, is shown
C21_FirstMatchOnly ==
    LET c == resolver.shape
        constants == get_constants_and_functions(resolver.kind).constants
        s == ArmToShow(c, constants)
    IN  (resolver.stage \in {"done", "end"} /\ c.family = "chain") =>
            /\ resolver.out.evals
                  = EvaluatedOf(c.conds, 1, constants)
                    \o (IF c.nestAt # 0 /\ c.nestAt = s
                        THEN EvaluatedOf(c.inner.conds, 1, constants) ELSE <<>>)
            /\ s # -1 => resolver.out.status = "ok"
            /\ s = -1 => resolver.out.status = "NameError"
            /\ (s = Len(c.conds) + 1 /\ c.hasElse)
                  => Marker("a", s) \in {Splitlines(resolver.out.text)[i] :
                                            i \in 1..Len(Splitlines(resolver.out.text))}

\* the first arm matched and a later arm's condition names an undefined
\* symbol: the chain was resolved without an error and only the first
\* condition was evaluated
C21_Witness ==
    LET c == resolver.shape
    IN  /\ resolver.stage = "done"
        /\ c.family = "chain"
        /\ Len(c.conds) = 3
        /\ c.conds[1] = <<"TYPE", "_NAME", " ", "==", " ", "\"Obj\"">>
        /\ c.conds[2] = <<"UNDEFINED_NAME">>
        /\ c.hasElse
        /\ resolver.kind = "Obj"
        /\ resolver.out.status = "ok"
        /\ resolver.out.evals = <<c.conds[1]>>

(***************************************************************************)
(* C23: the block trees the parser builds                                  *)
(***************************************************************************)

RECURSIVE ArmsInPlace(_)
\* in the container node and in every arm below it, an "elif", "else" or
\* "endif" block comes right after an arm block, and a literal line or an
\* "if" block comes first or right after a literal line or an "endif"
ArmsInPlace(node) ==
    \A i \in 1..Len(node.blocks) :
        LET b == node.blocks[i]
        IN  /\ b.type \in {"elif", "else", "endif"}
                 => (i > 1 /\ node.blocks[i - 1].type \in {"if", "elif", "else"})
            /\ b.type \in {"line", "if"}
                 => (i = 1 \/ node.blocks[i - 1].type \in {"line", "endif"})
            /\ b.type \in {"if", "elif", "else"} => ArmsInPlace(b)

\* C23: when the parser has built the block tree without raising, every
\* chain of every container starts with an "if" block and holds only arm
\* blocks up to its "endif", and the resolver ends without a failed
\* assertion (and without indexing a literal line as a block)
C23_AssertionsHold ==
    (resolver.stage \in {"parsed", "done", "end"} /\ resolver.parsed.status = "ok")
    => /\ ArmsInPlace(resolver.parsed.root)
       /\ resolver.stage \in {"done", "end"}
             => resolver.out.status \notin {"AssertionError", "TypeError"}

\* a chain with a false "#if" arm and an "#else" arm holding a literal
\* line was parsed and resolved: both assertions were passed
C23_Witness ==
    /\ resolver.stage = "done"
    /\ resolver.shape.family = "lines"
    /\ resolver.parsed.status = "ok"
    /\ resolver.out.status = "ok"
    /\ Len(resolver.parsed.root.blocks) = 3
    /\ resolver.parsed.root.blocks[1].type = "if"
    /\ resolver.parsed.root.blocks[2].type = "else"
    /\ resolver.out.evals = << <<"False">> >>
    /\ resolver.out.text = <<"x", "\n">>

(***************************************************************************)
(* C11: directives that do not nest                                        *)
(***************************************************************************)

RECURSIVE DirectiveDepth(_, _, _)
\* the number of conditionals open after the lines from i on, counted from
\* depth d; -1 when an "#elif ", "#else" or "#endif" line comes with no
\* conditional open
DirectiveDepth(lines, i, d) ==
    IF i > Len(lines) THEN d
    ELSE IF StartsWith(lines[i], <<"#if ">>)
    THEN DirectiveDepth(lines, i + 1, d + 1)
    ELSE IF StartsWith(lines[i], <<"#elif ">>) \/ StartsWith(lines[i], <<"#else">>)
    THEN IF d = 0 THEN -1 ELSE DirectiveDepth(lines, i + 1, d)
    ELSE IF StartsWith(lines[i], <<"#endif">>)
    THEN IF d = 0 THEN -1 ELSE DirectiveDepth(lines, i + 1, d - 1)
    ELSE DirectiveDepth(lines, i + 1, d)

StrayDirective(text) == DirectiveDepth(Splitlines(text), 1, 0) = -1
OpenAtEnd(text) == DirectiveDepth(Splitlines(text), 1, 0) > 0

\* C11: a template with an "#elif ", "#else" or "#endif" line outside any
\* open conditional makes the parser raise (IndexError of stack[-1]); a
\* template with a conditional still open at its end makes the resolver
\* raise; in both cases generate_sourcefile ends with that exception and
\* its output file is not written
C11_MalformedFails ==
    (resolver.stage \in {"parsed", "done", "end"} /\ resolver.shape.family = "raw")
    => LET d == DirectiveDepth(Splitlines(resolver.text), 1, 0)
       IN  /\ d = -1 => resolver.parsed.status = "IndexError"
           /\ (d # 0 /\ resolver.stage \in {"done", "end"})
                  => resolver.out.status # "ok"
           /\ (d # 0 /\ resolver.stage = "end")
                  => /\ resolver.status # "ok"
                     /\ resolver.file = NoFile

\* a conditional whose condition holds is left open: the parser accepts the
\* text, the resolver runs off the block list, nothing is written
C11_Witness ==
    /\ resolver.stage = "end"
    /\ resolver.shape.family = "raw"
    /\ OpenAtEnd(resolver.text)
    /\ resolver.parsed.status = "ok"
    /\ resolver.out.status = "IndexError"
    /\ resolver.out.evals # <<>>
    /\ resolver.file = NoFile

(***************************************************************************)
(* Repeated calls of generate_template_sources (lines 474-512)             *)
(***************************************************************************)

\* most calls of generate_template_sources in one behaviour
MaxCalls == 2

InitExpand ==
    /\ DriverAtRest
    /\ resolver = IdleResolver
    /\ macro = IdleMacro
    /\ lookup = IdleLookup
    /\ evaluation = IdleEval
    /\ \E texts \in [TemplateNames -> Contents] :
          gen = [stage |-> "idle", texts |-> texts, entry |-> 1,
                 pending |-> <<>>, env |-> <<>>, calls |-> 0, disk |-> {},
                 log |-> <<>>]

\* somebody edits a template file between two calls
GenEdit ==
    /\ gen.stage = "idle"
    /\ \E t \in TemplateNames, c \in Contents :
          /\ gen.texts[t] # c
          /\ gen' = [gen EXCEPT !.texts[t] = c]
    /\ UNCHANGED <<driverVars, resolver, macro, lookup, evaluation>>

\* an entry register_template accepts whose file_name_func gives two of
\* its binding tuples one path
CollidingEntry ==
    [template |-> "ReferenceableHeap.java.template",
     types |-> << <<"Int", "Void">>, <<"Int", "Obj">> >>, ordered |-> TRUE,
     config_func |-> "generate_referenceable_heap",
     file_name_func |-> "KeyOnly", flavor |-> "None"]

\* the entries generate_template_sources is called with
TemplateEntries == Append(TEMPLATES, CollidingEntry)

\* lines 474-476: generate_template_sources(template_entry) is called and
\* the loop over template_entry["types"] starts
GenCall ==
    /\ gen.stage = "idle"
    /\ gen.calls < MaxCalls
    /\ \E e \in 1..Len(TemplateEntries) :
          \E order \in IterationOrders(TemplateEntries[e]) :
              gen' = [gen EXCEPT !.stage = "loop", !.entry = e,
                                 !.pending = order, !.env = <<>>,
                                 !.calls = @ + 1]
    /\ UNCHANGED <<driverVars, resolver, macro, lookup, evaluation>>

\* lines 500-511: what follows the call of generate_sourcefile, r being
\* its result: the file is written, or the exception ends the call
GenAfter(entry, types, filename, r) ==
    gen' = [gen EXCEPT
              !.env = types,
              !.stage = IF Propagates(r.status) \/ Tail(gen.pending) = <<>>
                        THEN "idle" ELSE "loop",
              !.pending = IF Propagates(r.status) THEN <<>> ELSE Tail(@),
              !.disk = IF r.status = "ok"
                       THEN {f \in @ : f.path # filename}
                            \cup {[path |-> filename, text |-> r.text]}
                       ELSE @,
              !.log = Append(@, [call |-> gen.calls,
                                 template |-> entry.template,
                                 content |-> gen.texts[entry.template],
                                 types |-> types, path |-> filename,
                                 status |-> r.status, text |-> r.text])]

\* lines 476-511: one iteration of "for types in template_entry['types']"
GenTuple ==
    /\ gen.stage = "loop"
    /\ GenAfter(TemplateEntries[gen.entry], Head(gen.pending),
                file_name_func(TemplateEntries[gen.entry], Head(gen.pending)),
                generate_one(TemplateEntries[gen.entry], Head(gen.pending),
                             TemplateTexts[gen.texts[TemplateEntries[gen.entry].template]]))
    /\ UNCHANGED <<driverVars, resolver, macro, lookup, evaluation>>

NextExpand ==
    \/ GenEdit
    \/ GenCall
    \/ GenTuple

SpecExpand == InitExpand /\ [][NextExpand]_vars

\* expansions i and j of the log are of the same template text with the
\* same binding tuple
SameExpansion(i, j) ==
    /\ gen.log[i].template = gen.log[j].template
    /\ gen.log[i].content = gen.log[j].content
    /\ gen.log[i].types = gen.log[j].types

MaxPieces == 6

\* longest argument list drawn after a macro name
MaxArgLen == 4

\* the fragments of the macro name PRIMITIVE_TO_BOXED, and "()"
MacroPieces == {<<"PRIMITIVE_">>, <<"TO_BOXED">>, <<"(", ")">>}

ArgLexemes == {"(", ")", ",", " ", "x"}

RECURSIVE PieceTexts(_)
\* the texts made of at most n pieces
PieceTexts(n) ==
    IF n = 0 THEN {<<>>}
    ELSE PieceTexts(n - 1)
         \cup {t \o p : t \in PieceTexts(n - 1), p \in MacroPieces}

\* the call of the running example: NAME(a, BAR(b, c), d)
ExampleCall ==
    <<"COMPARE_", "DEFAULT", "(", "a", ",", " ", "BAR", "(", "b", ",", " ",
      "c", ")", ",", " ", "d", ")">>

\* a call whose argument holds the macro name again, followed by gap
NestedCall(gap) ==
    <<"PRIMITIVE_", "TO_BOXED", "(", "PRIMITIVE_", "TO_BOXED">> \o gap
        \o <<"(", "x", ")", ")", "\n">>

\* calls with a macro name inside the argument list, the name followed by
\* "(", by a blank, or by the ")" of the outer call
NestedCalls ==
    {NestedCall(<<>>), NestedCall(<<" ">>), NestedCall(<<")">>)}

\* the texts the macro stage is run on (after constant substitution)
MacroTexts ==
    PieceTexts(MaxPieces)
    \cup NestedCalls
    \cup {<<"PRIMITIVE_", "TO_BOXED", "(">> \o s :
            s \in UNION {[1..k -> ArgLexemes] : k \in 0..MaxArgLen}}
    \cup {ExampleCall}

\* sorted(functions.items(), key=lambda kv: kv[0], reverse=True)
sorted_functions(functions) ==
    LET names == SortedReverse(functions)
    IN  [i \in 1..Len(names) |-> [name |-> names[i], func |-> functions[names[i]]]]

InitMacro ==
    /\ DriverAtRest
    /\ resolver = IdleResolver
    /\ gen = IdleGen
    /\ lookup = IdleLookup
    /\ evaluation = IdleEval
    /\ \E t \in MacroTexts, k \in Kinds :
          macro = [stage |-> "input", kind |-> k, order |-> <<>>,
                   input |-> t,
                   m |-> [status |-> "run", text |-> t, begin |-> 0,
                          last |-> NoCall]]

\* line 198: the functions of the kind are sorted and the loop starts
MacroStart ==
    /\ macro.stage = "input"
    /\ macro' = [macro EXCEPT
                   !.stage = "run",
                   !.order = sorted_functions(
                                 get_constants_and_functions(macro.kind).functions)]
    /\ UNCHANGED <<driverVars, resolver, gen, lookup, evaluation>>

\* what follows one iteration of apply_function's loop, m being its result:
\* the loop goes on, or apply_function returned and the "for" loop passes
\* to the next function, or the exception ends the stage
MacroAfter(m) ==
    macro' =
        IF m.status = "run" THEN [macro EXCEPT !.m = m]
        ELSE IF m.status # "ok"
        THEN [macro EXCEPT !.stage = "done", !.m = m]
        ELSE IF Tail(macro.order) = <<>>
        THEN [macro EXCEPT !.stage = "done", !.order = <<>>, !.m = m]
        ELSE [macro EXCEPT !.order = Tail(@),
                           !.m = [m EXCEPT !.status = "run", !.begin = 0]]

\* lines 103-108: one iteration of the "while True" loop of apply_function
\* for the function the "for" loop of line 199 stands at
MacroStep ==
    /\ macro.stage = "run"
    /\ MacroAfter(apply_function_step(macro.m, Head(macro.order).name,
                                      Head(macro.order).func))
    /\ UNCHANGED <<driverVars, resolver, gen, lookup, evaluation>>

NextMacro ==
    \/ MacroStart
    \/ MacroStep

SpecMacro == InitMacro /\ [][NextMacro]_vars

(***************************************************************************)
(* Properties of the macro stage                                           *)
(***************************************************************************)

\* the names registered for the kind the stage runs for
RegisteredMacros == DOMAIN get_constants_and_functions(macro.kind).functions

\* name occurs in text followed at once by a parenthesized argument list
CallOf(name, text) ==
    \E i \in 0..Len(text) :
        /\ OccursAt(text, name, i)
        /\ find_func_args(text, i + Len(name)).status = "ok"

\* C9 as stated: when the macro stage has completed over all registered
\* names, the final text holds no registered name followed at once by a
\* parenthesized argument list
C9_AsStated ==
    (macro.stage = "done" /\ macro.m.status = "ok") =>
        \A name \in RegisteredMacros : ~CallOf(name, macro.m.text)

\* the number of "(" less the number of ")" in text[from:to] (0-based)
Depth(text, from, to) ==
    Cardinality({j \in from..(to - 1) : text[j + 1] = "("})
        - Cardinality({j \in from..(to - 1) : text[j + 1] = ")"})

\* the 0-based index of the ")" that closes the "(" at index open
MatchingClose(text, open) ==
    CHOOSE i \in (open + 1)..(Len(text) - 1) :
        /\ text[i + 1] = ")"
        /\ Depth(text, open, i) = 1
        /\ \A j \in (open + 1)..(i - 1) :
              ~(text[j + 1] = ")" /\ Depth(text, open, j) = 1)

\* the indices of the commas at nesting depth 1 of the list opened at open
Depth1Commas(text, open) ==
    {i \in (open + 1)..(MatchingClose(text, open) - 1) :
        text[i + 1] = "," /\ Depth(text, open, i) = 1}

RECURSIVE Trim(_)
\* t without its leading and trailing whitespace
Trim(t) ==
    IF t = <<>> THEN t
    ELSE IF IsSpace(Head(t)) THEN Trim(Tail(t))
    ELSE IF IsSpace(t[Len(t)]) THEN Trim(SubSeq(t, 1, Len(t) - 1))
    ELSE t

\* the arguments of the claim: the source text between the depth-1 commas,
\* each with its leading and trailing whitespace trimmed
TrimmedArgs(text, open) ==
    LET commas == Depth1Commas(text, open)
        cut(k) == IF k = 0 THEN open
                  ELSE IF k > Cardinality(commas) THEN MatchingClose(text, open)
                  ELSE CHOOSE c \in commas :
                           Cardinality({d \in commas : d < c}) = k - 1
    IN  [k \in 1..(Cardinality(commas) + 1) |->
            Trim(Slice(text, cut(k - 1) + 1, cut(k)))]

\* C10 as stated: find_func_args splits the list at its depth-1 commas only,
\* returns each argument as its source text with the leading and trailing
\* whitespace trimmed, and an end index just past the matching ")"
C10_AsStated ==
    (macro.stage \in {"run", "done"} /\ macro.m.last.status = "ok") =>
        /\ macro.m.last.words
               = TrimmedArgs(macro.m.last.text, macro.m.last.begin)
        /\ macro.m.last.end
               = MatchingClose(macro.m.last.text, macro.m.last.begin) + 1

(***************************************************************************)
(* C12: malformed macro calls                                              *)
(***************************************************************************)

\* the "(" at 0-based index open has a matching ")" before the end of text
ClosedBeforeEnd(text, open) ==
    \E i \in (open + 1)..(Len(text) - 1) :
        text[i + 1] = ")" /\ Depth(text, open, i) = 1

\* name occurs at i and no longer registered name occurs there
NameAt(text, name, i) ==
    /\ OccursAt(text, name, i)
    /\ \A other \in RegisteredMacros :
          (Len(other) > Len(name) /\ StartsWith(other, name))
              => ~OccursAt(text, other, i)

\* text holds a registered macro name that is not followed at once by "(",
\* or whose "(" is not closed before the end of the text
MalformedCallIn(text) ==
    \E name \in RegisteredMacros, i \in 0..Len(text) :
        /\ NameAt(text, name, i)
        /\ LET open == i + Len(name)
           IN  \/ open >= Len(text)
               \/ text[open + 1] # "("
               \/ ~ClosedBeforeEnd(text, open)

\* C12 as stated: when the text given to the macro stage holds a registered
\* macro name that is not immediately followed by "(" or whose parentheses
\* are not balanced before the end of the text, the stage ends with an
\* error (and so no output file is written)
C12_AsStated ==
    (macro.stage = "done" /\ MalformedCallIn(macro.input))
        => macro.m.status # "ok"

(***************************************************************************)
(* C24: termination of the macro stage                                     *)
(***************************************************************************)

\* the macro stage is sequential code: while an iteration of a loop is
\* possible the interpreter takes it
SpecMacroFair == SpecMacro /\ WF_vars(NextMacro)

\* every occurrence of a registered name in text is a call with a closed
\* argument list holding as many arguments as the function takes
WellFormedCalls(text) ==
    /\ ~MalformedCallIn(text)
    /\ \A name \in RegisteredMacros, i \in 0..Len(text) :
          NameAt(text, name, i) =>
              LET r == find_func_args(text, i + Len(name))
              IN  /\ r.status = "ok"
                  /\ Len(r.words)
                       = get_constants_and_functions(macro.kind).functions[name].arity

\* name occurs somewhere in text
OccursIn(text, name) == \E i \in 0..Len(text) : OccursAt(text, name, i)

\* the number of lexemes of text that are part of a registered macro name
NameLexemes(text) ==
    Cardinality({i \in 1..Len(text) :
                    \E name \in RegisteredMacros :
                        \E j \in 1..Len(name) : text[i] = name[j]})

\* C24, termination alone: an iteration of apply_function that splices and
\* goes on with the same name leaves fewer name lexemes in the text, and
\* every other iteration ends the stage or passes to the next function, so
\* under SpecMacroFair every run of the stage ends
C24_Terminates ==
    [][(macro.stage = "run" /\ macro'.stage = "run")
          => \/ Len(macro'.order) < Len(macro.order)
             \/ /\ macro'.order = macro.order
                /\ NameLexemes(macro'.m.text) < NameLexemes(macro.m.text)]_vars

\* C24 as stated: on every input whose macro calls are well-formed, the
\* macro stage ends, after finitely many splices, with a text in which no
\* registered macro name occurs
C24_AsStated ==
    (macro.stage = "done" /\ WellFormedCalls(macro.input))
        => /\ macro.m.status = "ok"
           /\ \A name \in RegisteredMacros : ~OccursIn(macro.m.text, name)

(***************************************************************************)
(* C22: where the scan resumes after a splice                              *)
(***************************************************************************)

\* the 0-based index just past the text spliced in by the call m.last
SplicedEnd(m) == Len(m.text) - Len(m.last.text) + m.last.end

\* C22 as stated: within the pass of one macro name, after a call was
\* replaced by the text of the macro function, the scan resumes after the
\* spliced text: the next occurrence found does not begin inside it
C22_AsStated ==
    [][(/\ macro.stage = "run" /\ macro'.stage \in {"run", "done"}
        /\ macro.m.status = "run"
        /\ macro.m.last.status = "ok"
        /\ macro.m.last.name = Head(macro.order).name
        /\ macro'.m.last # macro.m.last
        /\ macro'.m.last.name = macro.m.last.name)
       => macro'.m.last.begin - Len(macro.m.last.name) >= SplicedEnd(macro.m)]_vars

(***************************************************************************)
(* C13: two binding tuples with one output path                            *)
(***************************************************************************)

\* expansions i < j of the log belong to one call of
\* generate_template_sources, have distinct binding tuples and one path
Collide(i, j) ==
    /\ i < j
    /\ gen.log[i].call = gen.log[j].call
    /\ gen.log[i].types # gen.log[j].types
    /\ gen.log[i].path = gen.log[j].path

\* C13 as stated: when two distinct binding tuples of the template map to
\* the same output path, the call raises instead of writing the second
\* tuple's output over the first
C13_AsStated ==
    gen.stage # "off" =>
        \A i, j \in 1..Len(gen.log) :
            (Collide(i, j) /\ gen.log[i].status = "ok")
                => gen.log[j].status # "ok"

(***************************************************************************)
(* The register_template declarations and their output paths               *)
(***************************************************************************)

TYPE_ALL ==
    {"Obj", "Byte", "Short", "Int", "Long", "Float", "Double", "Bool", "Char"}

\* the list of pairs given to the four referenceable and pairing heap
\* declarations
HeapPairs ==
    {<<"Int", "Int">>, <<"Int", "Void">>, <<"Long", "Int">>,
     <<"Double", "Int">>, <<"Double", "Obj">>, <<"Obj", "Void">>,
     <<"Obj", "Obj">>}

IntObjPairs == {<<"Int", "Int">>, <<"Obj", "Obj">>}
TreePairs == {<<"Int", "Int">>, <<"Obj", "Obj">>, <<"Double", "Obj">>}

\* one declaration: dir is PACKAGE_DIR or TEST_PACKAGE_DIR below
\* GENERATED_SOURCES_DIR, form the shape of its file_name_func lambda
Declared(template, types, dir, form) ==
    [template |-> template, types |-> types, dir |-> dir, form |-> form]

PACKAGE_DIR == "main/java/com/jgalgo/"
TEST_PACKAGE_DIR == "test/java/com/jgalgo/"

\* every register_template call of the file, in order
REGISTERED ==
    << Declared("Weights", {<<t>> : t \in TYPE_ALL}, PACKAGE_DIR, "type"),
       Declared("IWeights", {<<t>> : t \in TYPE_ALL}, PACKAGE_DIR, "type"),
       Declared("WeightsImpl", {<<t>> : t \in TYPE_ALL}, PACKAGE_DIR, "type"),
       Declared("ReferenceableHeap", HeapPairs, PACKAGE_DIR, "key_value"),
       Declared("ReferenceableHeapTestUtils", HeapPairs, TEST_PACKAGE_DIR,
                "key_value"),
       Declared("PairingHeap", HeapPairs, PACKAGE_DIR, "key_value"),
       Declared("PairingHeapTest", HeapPairs, TEST_PACKAGE_DIR, "key_value"),
       Declared("BinomialHeap", IntObjPairs, PACKAGE_DIR, "key_value"),
       Declared("BinomialHeapTest", IntObjPairs, TEST_PACKAGE_DIR, "key_value"),
       Declared("FibonacciHeap", IntObjPairs, PACKAGE_DIR, "key_value"),
       Declared("FibonacciHeapTest", IntObjPairs, TEST_PACKAGE_DIR, "key_value"),
       Declared("BinarySearchTree", TreePairs, PACKAGE_DIR, "key_value"),
       Declared("BinarySearchTreeTestUtils", TreePairs, TEST_PACKAGE_DIR,
                "key_value"),
       Declared("BinarySearchTrees", {<<"Int">>, <<"Double">>, <<"Obj">>},
                PACKAGE_DIR, "key"),
       Declared("RedBlackTree", TreePairs, PACKAGE_DIR, "key_value"),
       Declared("RedBlackTreeTest", TreePairs, TEST_PACKAGE_DIR, "key_value"),
       Declared("SplayTree", IntObjPairs, PACKAGE_DIR, "key_value"),
       Declared("SplayTreeTest", IntObjPairs, TEST_PACKAGE_DIR, "key_value") >>

RECURSIVE StrJoin(_)
\* the str that the pieces make when concatenated ("+" and f-strings)
StrJoin(pieces) ==
    IF pieces = <<>> THEN "" ELSE Head(pieces) \o StrJoin(Tail(pieces))

\* the file_name_func lambda of a declaration applied to a binding tuple,
\* as the path string below GENERATED_SOURCES_DIR
declared_path(entry, types) ==
    IF entry.form = "type"
    THEN StrJoin(<<entry.dir, "graph/", entry.template, types[1], ".java">>)
    ELSE IF entry.form = "key"
    THEN StrJoin(<<entry.dir, "internal/ds/", types[1], entry.template, ".java">>)
    ELSE StrJoin(<<entry.dir, "internal/ds/">>
                 \o key_value_prefix(types[1], types[2])
                 \o <<entry.template, ".java">>)

\* the (template, binding tuple) pairs of the registry
RegisteredPairs ==
    UNION {{[entry |-> i, types |-> t] : t \in REGISTERED[i].types} :
              i \in 1..Len(REGISTERED)}

InitLookup ==
    /\ DriverAtRest
    /\ resolver = IdleResolver
    /\ macro = IdleMacro
    /\ gen = IdleGen
    /\ evaluation = IdleEval
    /\ \E a \in RegisteredPairs, b \in RegisteredPairs :
          lookup = [stage |-> "pairs", a |-> a, b |-> b]

\* template_entry["file_name_func"](*types) for the first pair
PathOfFirst ==
    /\ lookup.stage = "pairs"
    /\ lookup' = [stage |-> "first", a |-> lookup.a, b |-> lookup.b,
                  pa |-> declared_path(REGISTERED[lookup.a.entry],
                                       lookup.a.types)]
    /\ UNCHANGED <<driverVars, resolver, macro, gen, evaluation>>

\* template_entry["file_name_func"](*types) for the second pair
PathOfSecond ==
    /\ lookup.stage = "first"
    /\ lookup' = [stage |-> "both", a |-> lookup.a, b |-> lookup.b,
                  pa |-> lookup.pa,
                  pb |-> declared_path(REGISTERED[lookup.b.entry],
                                       lookup.b.types)]
    /\ UNCHANGED <<driverVars, resolver, macro, gen, evaluation>>

NextLookup ==
    \/ PathOfFirst
    \/ PathOfSecond

SpecLookup == InitLookup /\ [][NextLookup]_vars

\* C14: over the registry as declared, two distinct (template, binding
\* tuple) pairs never get the same output path, and key_value_prefix gives
\* distinct prefixes to distinct registered key/value pairs, the pairs with
\* value kind Void included
C14_PathsInjective ==
    lookup.stage = "both" =>
        /\ lookup.a # lookup.b => lookup.pa # lookup.pb
        /\ (Len(lookup.a.types) = 2 /\ Len(lookup.b.types) = 2
                /\ lookup.a.types # lookup.b.types)
              => StrJoin(key_value_prefix(lookup.a.types[1], lookup.a.types[2]))
                     # StrJoin(key_value_prefix(lookup.b.types[1],
                                                lookup.b.types[2]))

\* the paths of a Void-valued pair and of another pair with the same key
\* kind, of one template, have been computed
C14_Witness ==
    /\ lookup.stage = "both"
    /\ lookup.a.entry = lookup.b.entry
    /\ lookup.a.types = <<"Int", "Void">>
    /\ lookup.b.types = <<"Int", "Int">>
    /\ lookup.pa = "main/java/com/jgalgo/internal/ds/IntPairingHeap.java"
    /\ lookup.pb = "main/java/com/jgalgo/internal/ds/IntIntPairingHeap.java"


(***************************************************************************)
(* C20: an error in one expansion                                          *)
(***************************************************************************)

\* C20: once the expansion of a (template, tuple) pair has raised, the run
\* is over: main() has left with the exception, the failing tuple and the
\* tuples after it have no output written by this run, no template after
\* the failing one is expanded or written, the formatter is not run and
\* hashes.json is not written
C20_ErrorAbortsRun ==
    (run.mode = "incremental" /\ run.failedAt # <<>>) =>
        /\ pc = "idle"
        /\ run.outcome = "expansion_failed"
        /\ TEMPLATES[idx].template = run.failedAt[1]
        /\ pending # <<>> /\ Head(pending) = run.failedAt[2]
        /\ \A k \in 1..Len(pending) :
              file_name_func(TEMPLATES[idx], pending[k]) \notin Written
        /\ \A t \in TemplateNames :
              TemplateIndex(t) > idx => NotReExpanded(t)
        /\ run.formatter = "not_run"
        /\ run.cacheWrites = 0
        /\ hashesFile = run.startHashesFile

\* the first template failed on its second tuple: the first tuple's file is
\* written, the second template is left untouched
C20_Witness ==
    /\ RunEnded
    /\ run.outcome = "expansion_failed"
    /\ idx = 1
    /\ Len(pending) = 1
    /\ Len(run.written) = 1
    /\ run.expanded = {TEMPLATES[1].template}

(***************************************************************************)
(* C15: the formatter                                                      *)
(***************************************************************************)

\* C15 as stated: when every expansion of the run succeeded and the
\* formatter is missing or its invocation failed, the run still completes
\* and hashes.json is written with the current digests
C15_AsStated ==
    (RunEnded /\ run.expanded # {} /\ run.failedAt = <<>>
        /\ run.formatter \in {"missing", "raised"})
    => /\ run.outcome = "written"
       /\ hashesFile = [state |-> "valid",
                        hashes |-> CurrentHashes(run.startFiles)]

(***************************************************************************)
(* C16: a record that cannot be read                                       *)
(***************************************************************************)

\* the run started on a hashes.json that exists and is not a JSON document
CorruptAtStart == run.startHashesFile.state = "truncated"

\* C16 as stated: a run that finds hashes.json unreadable or corrupt goes
\* on as if there were no record: unless an expansion, the formatter or
\* the write fails, it expands every registered template and ends with a
\* fresh valid record
C16_AsStated ==
    (RunEnded /\ CorruptAtStart
        /\ run.outcome \notin {"expansion_failed", "format_failed", "interrupted"})
    => /\ run.expanded = TemplateNames
       /\ hashesFile = [state |-> "valid",
                        hashes |-> CurrentHashes(run.startFiles)]

(***************************************************************************)
(* C17: when hashes.json is written                                        *)
(***************************************************************************)

\* C17: in a run hashes.json is written at most once; while a template can
\* still be checked or expanded, or the formatter has not returned, the
\* record is the one the run started with; once the write has begun the
\* loop over TEMPLATES is over, every tuple is expanded, the formatter has
\* returned, and the run writes no further output
C17_CacheWrittenLast ==
    run.mode = "incremental" =>
        /\ run.cacheWrites <= 1
        /\ pc \in {"loop", "expand", "format", "write"}
              => (hashesFile = run.startHashesFile /\ run.cacheWrites = 0)
        /\ (pc = "write_data" \/ run.cacheWrites = 1)
              => /\ run.formatter \in {"missing", "ok"}
                 /\ run.failedAt = <<>>
                 /\ idx = Len(TEMPLATES) + 1
                 /\ pending = <<>>
                 /\ Written = {generated_files[k] : k \in 1..Len(generated_files)}

\* a run expanded both templates, formatted and wrote the record once
C17_Witness ==
    /\ RunEnded
    /\ run.outcome = "written"
    /\ run.cacheWrites = 1
    /\ run.expanded = TemplateNames
    /\ run.formatter = "ok"
    /\ Len(run.written) = 4
    /\ hashesFile = [state |-> "valid", hashes |-> CurrentHashes(run.startFiles)]

(***************************************************************************)
(* C18: an interrupted write of hashes.json                                *)
(***************************************************************************)

\* C18 as stated: when the run is interrupted inside
\* write_generated_templates, hashes.json holds either the complete record
\* the run started with or the complete new record, never an empty or
\* partial one
C18_AsStated ==
    (RunEnded /\ run.outcome = "interrupted")
    => \/ hashesFile = run.startHashesFile
       \/ hashesFile = [state |-> "valid",
                        hashes |-> CurrentHashes(run.startFiles)]

(***************************************************************************)
(* eval_condition on conditions with "not", "and", "or"                    *)
(***************************************************************************)

MaxTerms == 2

\* the atoms a condition is made of: truth values, a comparison of a bound
\* name, an unbound name, an assignment expression
CondAtoms ==
    {<<"True">>, <<"False">>,
     <<"TYPE", "_NAME", " ", "==", " ", "\"Obj\"">>,
     <<"UNDEFINED_NAME">>,
     <<"(", "x", " ", ":=", " ", "\"Obj\"", ")">>}

\* an atom, or its negation
CondTerms == CondAtoms \cup {<<"not", " ">> \o a : a \in CondAtoms}

RECURSIVE CondExprs(_)
\* the conditions of at most n terms joined by "and" and "or"
CondExprs(n) ==
    IF n = 1 THEN CondTerms
    ELSE CondExprs(n - 1)
         \cup {e \o <<" ", kw, " ">> \o t :
                 e \in CondExprs(n - 1), kw \in {"and", "or"}, t \in CondTerms}

InitEval ==
    /\ DriverAtRest
    /\ resolver = IdleResolver
    /\ macro = IdleMacro
    /\ gen = IdleGen
    /\ lookup = IdleLookup
    /\ \E c \in CondExprs(MaxTerms), k \in Kinds :
          evaluation = [stage |-> "input", condition |-> c,
                        constants |-> get_constants_and_functions(k).constants]

\* lines 150-151: eval(condition, {}, constants)
EvalCondition ==
    /\ evaluation.stage = "input"
    /\ evaluation' = [stage |-> "done", condition |-> evaluation.condition,
                      constants |-> evaluation.constants,
                      result |-> eval_in(evaluation.condition,
                                         evaluation.constants)]
    /\ UNCHANGED <<driverVars, resolver, macro, gen, lookup>>

NextEval ==
    \/ EvalCondition

SpecEval == InitEval /\ [][NextEval]_vars

\* the names a condition references: its maximal runs of identifier
\* lexemes, the target of an assignment expression left out
NamesIn(condition) ==
    LET toks == SelectSeq(condition, LAMBDA c : ~IsSpace(c))
        IsName(i, j) ==
            /\ i <= j
            /\ \A k \in i..j : toks[k] \in IdentLexemes
            /\ (i = 1 \/ toks[i - 1] \notin IdentLexemes)
            /\ (j = Len(toks) \/ toks[j + 1] \notin IdentLexemes \cup {":="})
    IN  {SubSeq(toks, p[1], p[2]) :
            p \in {q \in (1..Len(toks)) \X (1..Len(toks)) : IsName(q[1], q[2])}}

\* C19 as stated: evaluating a condition leaves the constants unchanged,
\* and raises an error whenever the condition references a name that is
\* missing from the environment
C19_AsStated ==
    evaluation.stage = "done" =>
        /\ evaluation.result.constants = evaluation.constants
        /\ (\E n \in NamesIn(evaluation.condition) :
                n \notin DOMAIN evaluation.constants)
              => evaluation.result.status \notin {"true", "false"}

(***************************************************************************)
(* C25: a template file modified by another process while a run is under   *)
(* way.  The run reads each template file when it tests it for a change    *)
(* (line 1020), once for every binding tuple it expands (line 110) and     *)
(* again when it computes the digests to store (line 1029); nothing locks  *)
(* the file between these reads.                                           *)
(***************************************************************************)

\* another process writes a template file while main() runs; once in a run
ModifyTemplate ==
    /\ pc # "idle"
    /\ files = run.startFiles
    /\ \E t \in TemplateNames, c \in Contents :
        /\ files[t] # c
        /\ files' = [files EXCEPT ![t] = c]
    /\ UNCHANGED <<pc, hashesFile, hashes, idx, pending, local_files,
                   generated_files, is_template_changed, outputs, buffer, run,
                   prev, resolver, macro, gen, lookup, evaluation>>

NextRace ==
    \/ StartRun
    \/ CheckTemplate
    \/ ExpandTuple
    \/ EndLoop
    \/ format_source_files
    \/ WriteOpen
    \/ WriteData
    \/ Interrupt
    \/ ModifyTemplate

SpecRace == Init /\ [][NextRace]_vars

\* C25 as stated: after a run that wrote the cache, the digest stored for
\* every template expanded in the run is the digest of the content that
\* the expansion read, also when the file was modified during the run
C25_AsStated ==
    (pc = "idle" /\ run.outcome = "written") =>
        \A rd \in run.read :
            /\ rd[1] \in DOMAIN hashesFile.hashes
            /\ hashesFile.hashes[rd[1]] = compute_template_hash(rd[2])

====
